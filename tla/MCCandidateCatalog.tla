------------------------- MODULE MCCandidateCatalog -------------------------
(* Small instances of CandidateCatalog for TLC. *)
EXTENDS CandidateCatalog

(* A process that has completed and saved a refresh and is doing nothing,  *)
(* its generation counted from there: with MaxGen = 1 the next refresh     *)
(* still meets batches, speed tests and removals of the one before.        *)
WarmInit ==
    \E f \in BOOLEAN :
        LET all == [n \in Node |-> Source]
            s == [NoSnapshot EXCEPT !.pend = IF f THEN NoRecords ELSE all,
                                    !.fail = IF f THEN all ELSE NoRecords,
                                    !.rev = 1, !.phase = "complete"]
        IN  /\ live = s
            /\ disk = Image(s)
            /\ saved = [gen |-> 0, rev |-> 1]
            /\ based = {} /\ pub = "none" /\ rm = NoRemoval
            /\ lease = [k \in Kind |-> [n \in Node |-> "none"]]
            /\ job = [h \in Holder |-> NoJob]
            /\ pool = {} /\ known = [h \in Holder |-> {}]
            /\ removed = {} /\ excused = FALSE

MCSpec == (Init \/ WarmInit) /\ [][Next]_vars
=============================================================================
