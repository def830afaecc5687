------------------------------ MODULE CaseByCase ------------------------------
(***************************************************************************)
(* What can be said of the cases of a session one by one, before any runs: *)
(* a case reads what its own hooks leave, and what those it uses have left *)
(* when they passed.  The theorems of ChecksProofs say that the order the  *)
(* cases run in, and which of them fail, skip or are blocked, adds nothing *)
(* to this; MCChecks asks it of the catalogue.                             *)
(***************************************************************************)
EXTENDS ReframeTests, Integers

Steps(c) == Class[c.test].program

\* What the step h of case c leaves, and what c holds before its k-th step.
Leaves(c, h) ==
  h.writes \cup IF h.at \in Stages THEN (IF h.at = "setup" THEN Facts(c) ELSE {}) ELSE h.sets
HeldAt(c, k) == (c.env \cap Ambient) \cup UNION {Leaves(c, Steps(c)[j]) : j \in 1..(k - 1)}

\* The k-th step does not skip.
Goes(c, k) ==
  LET h == Steps(c)[k] IN
  h.at \in Stages \/ (h.skipIf \cap HeldAt(c, k) = {} /\ h.skipUnless \subseteq HeldAt(c, k))

\* The cases of the session S that c takes from.
SourcesOf(S, c) ==
  {d \in S : \E u \in Class[c.test].uses :
      d.test = u.test /\ (u.scope # "session" => d.env = c.env)}

\* What the k-th step of c lacks, in a session S, when those it uses have passed.
Lacks(S, c, k) ==
  LET h == Steps(c)[k] IN
  (h.reads \ HeldAt(c, k))
    \cup {a \in h.parents : \A d \in SourcesOf(S, c) :
            d.test # a[1] \/ a[2] \notin HeldAt(d, Len(Steps(d)) + 1)}
    \cup (IF h.rows = AnyRow \/ h.rows \cap HeldAt(c, k) # {} THEN {} ELSE {"row"})

\* The steps the case c may come to: no step up to them skips.
Reached(c) == {k \in 1..Len(Steps(c)) : Steps(c)[k].at \notin Stages /\ \A j \in 1..k : Goes(c, j)}

\* S is a session that may be started.
IsSession(S) ==
  \E t \in Roots, p \in DOMAIN Parts :
  \E proc \in Parts[p].processors, envs \in SUBSET Environs[t, p] :
  \E e \in envs :
    /\ Valid(Class[t].systems, Parts[p].facts)
    /\ Cardinality(envs) <= MaxEnvirons
    /\ S = SessionOf(t, p, proc, envs, e)

\* Programs are sequences, and no hook reads another test when it is loaded:
\* that is not set up yet.
Described(S) ==
  \A c \in S :
    /\ Len(Steps(c)) \in Nat
    /\ \A k \in 1..Len(Steps(c)) : Steps(c)[k].at \in LoadPoints => Steps(c)[k].parents = {}

\* Case by case: only what no test is to leave is missing.
Informed(S) == \A c \in S : \A k \in Reached(c) : Lacks(S, c, k) \subseteq FromOutside

\* A test with a reference has the rows for it.
HasRows(S) ==
  \A c \in S : \A k \in Reached(c) :
    ("procinfo" \in HeldAt(c, k) /\ Class[c.test].refs \cap HeldAt(c, k) # {})
      => "row" \notin Lacks(S, c, k)

\* A step adds to no list that is written, and assigns none to which an earlier
\* step has added something else.
Keeps(c) ==
  \A k \in 1..Len(Steps(c)) :
    /\ \A o \in Steps(c)[k].adds : o[1] \notin HeldAt(c, k)
    /\ \A j \in 1..(k - 1) : \A o \in Steps(c)[j].adds :
         o[1] \in Steps(c)[k].assigns => o \in Steps(c)[k].adds
KeepsAll(S) == \A c \in S : c.test \notin LosesItsOwn => Keeps(c)
===============================================================================
