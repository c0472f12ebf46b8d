------------------------------ MODULE PickSpec ------------------------------
(***************************************************************************)
(* What the pool promises to a caller of Pick and PickExcluding            *)
(* (pool.go): whatever else happens to the pool meanwhile, a pick is       *)
(* answered as if it had been computed and committed in one instant.  The  *)
(* answer is stated by what makes a node the right one, not by a scan.     *)
(***************************************************************************)
EXTENDS Naturals, FiniteSets, Sequences

CONSTANTS Nodes,   \* proxy keys
          Order,   \* Nodes as a sequence, in the pool's address order
          GroupAny,     \* the built-in group ANY
          Named,   \* configured and country groups
          Turns,   \* round-robin cursors are counted modulo Turns
          Conns,   \* callers of Pick
          None

VARIABLES
    status,   \* what routing may do with each node
    member,   \* the nodes each named group matches
    metric,   \* the measured values the metric strategies compare
    cursor,   \* the cursor of each group
    request   \* the pick each caller is waiting for or was answered

vars == <<status, member, metric, cursor, request>>

Before(m, n) ==
    \E i, j \in 1 .. Len(Order) : i < j /\ Order[i] = m /\ Order[j] = n

(* The nodes a group may use: routable members that were not excluded,     *)
(* and only the available ones as soon as there is one.                    *)
Usable(g, exclude) ==
    {n \in Nodes \ exclude : /\ status[n] \in {"up", "down"}
                             /\ g # GroupAny => n \in member[g]}
Preferred(g, exclude) ==
    LET up == {n \in Usable(g, exclude) : status[n] = "up"}
    IN  IF up # {} THEN up ELSE Usable(g, exclude)

(* An unmeasured value (zero) is worse than every measured one; low        *)
(* latency, high speed and high score are good.                            *)
Worse(strategy, v, w) ==
    \/ v = 0 /\ w # 0
    \/ v # 0 /\ w # 0 /\ IF strategy = "latency" THEN v > w ELSE v < w

(* n is a right answer, given the nodes P the group prefers.               *)
RightChoice(n, strategy, P, cur) ==
    /\ n \in P
    /\ CASE strategy = "sticky" ->
              IF cur.sticky \in P THEN n = cur.sticky
                                  ELSE \A m \in P : ~Before(m, n)
         [] strategy = "round-robin" ->
              Cardinality({m \in P : Before(m, n)}) = cur.rr % Cardinality(P)
         [] strategy = "random" -> TRUE
         [] OTHER ->
              \A m \in P \ {n} :
                 /\ ~Worse(strategy, metric[strategy][n], metric[strategy][m])
                 /\ Before(m, n) => Worse(strategy, metric[strategy][m],
                                                    metric[strategy][n])

(* Where the cursor stands after n was handed out.  A pinned node that is  *)
(* out of reach is stepped over, not replaced.                             *)
Moved(cur, n, strategy, P) ==
    [cur EXCEPT !.last = n,
                !.rr = IF strategy = "round-robin" THEN (@ + 1) % Turns ELSE @,
                !.sticky = IF strategy = "sticky" /\ (cur.pinned => @ \in P)
                           THEN n ELSE @]

Asking(c) == request[c].phase = "asked"

(* The instant of a pick: the pool stands still, the answer is right for   *)
(* it, and only this group's cursor moves.                                 *)
Answer(c) ==
    LET r == request[c]
        P == Preferred(r.group, r.exclude)
    IN  /\ Asking(c)
        /\ UNCHANGED <<status, member, metric>>
        /\ \/ /\ P = {}
              /\ request' = [request EXCEPT ![c].phase = "none"]
              /\ UNCHANGED cursor
           \/ \E n \in P :
                 /\ RightChoice(n, r.strategy, P, cursor[r.group])
                 /\ request' = [request EXCEPT ![c].phase = "answered",
                                               ![c].choice = n]
                 /\ cursor' = [cursor EXCEPT
                                 ![r.group] = Moved(@, n, r.strategy, P)]

(* A caller asks, or is done with its answer; its own effect on the pool   *)
(* is not restricted here.                                                 *)
Turn(c) ==
    /\ ~Asking(c)
    /\ \A d \in Conns \ {c} : request'[d] = request[d]

(* The rest of the program changes the pool while callers wait.            *)
Elsewhere == UNCHANGED request

Init == \A c \in Conns : ~Asking(c)
Next == Elsewhere \/ \E c \in Conns : Answer(c) \/ Turn(c)
Spec == Init /\ [][Next]_vars
=============================================================================
