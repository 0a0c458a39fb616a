----------------------------- MODULE AtomicStore -----------------------------
(***************************************************************************)
(* What engine.writeStore promises its callers, with no file in sight: the *)
(* store holds either nothing or one whole database, and the only thing    *)
(* that ever happens to it is that some writer replaces it, in one step,   *)
(* by the database that writer was asked to save.  A writer may also give  *)
(* up, at any time before that, and then leaves no trace.                  *)
(*                                                                         *)
(* WriteStore implements this specification with a temporary file and a    *)
(* rename; the refinement is checked by TLC and proved in                  *)
(* WriteStore_proofs.                                                      *)
(***************************************************************************)
CONSTANTS Writers,   \* the processes that save a database
          Contents,  \* the databases they save
          None       \* no database

VARIABLES content,   \* what a reader of the store gets
          asked      \* asked[w]: the database w is saving, or None

avars == <<content, asked>>

AInit == /\ content \in Contents \cup {None}
         /\ asked = [w \in Writers |-> None]

Ask(w, d) == /\ asked[w] = None
             /\ asked' = [asked EXCEPT ![w] = d]
             /\ UNCHANGED content

Put(w) == /\ asked[w] # None
          /\ content' = asked[w]
          /\ asked' = [asked EXCEPT ![w] = None]

GiveUp(w) == /\ asked[w] # None
             /\ asked' = [asked EXCEPT ![w] = None]
             /\ UNCHANGED content

ANext == \E w \in Writers : \/ \E d \in Contents : Ask(w, d)
                            \/ Put(w)
                            \/ GiveUp(w)

ASpec == AInit /\ [][ANext]_avars
=============================================================================
