-------------------------------- MODULE Hlc --------------------------------
(***************************************************************************)
(* The hybrid logical clock of core/src/sync/hlc.ts.  A stamp is           *)
(* (wall, counter, node), ordered in that order; a clock is the (wall,     *)
(* counter) pair a HybridClock object holds.  Node ids are strings in the  *)
(* code and only ever compared, so a node is the rank of its id.           *)
(***************************************************************************)
EXTENDS Integers, FiniteSets

CONSTANTS Node,        \* the ranks of the device ids
          Drift,       \* HLC_MAX_DRIFT_MS
          MaxCounter   \* MAX_COUNTER, the largest counter the clock will issue

ASSUME NodeAssumption == Node \subseteq Nat
ASSUME DriftAssumption == Drift \in Nat
ASSUME MaxCounterAssumption == MaxCounter \in Nat

Stamp == [wall : Nat, counter : Nat, node : Node]
Clock == [wall : Nat, counter : Nat]

FreshClock == [wall |-> 0, counter |-> 0]

\* The stamp a clock hands out: its reading, signed with the device's node.
StampAt(c, d) == [wall |-> c.wall, counter |-> c.counter, node |-> d]

\* compareHlc(a, b) < 0.
Before(a, b) ==
    \/ a.wall < b.wall
    \/ a.wall = b.wall /\ a.counter < b.counter
    \/ a.wall = b.wall /\ a.counter = b.counter /\ a.node < b.node

\* isFutureStamp: the wall is implausibly far ahead of the reader's time.
IsFutureStamp(s, now) == s.wall > now + Drift

\* A (wall, counter) reading is not behind a stamp: whatever the clock issues
\* next sorts after the stamp, whatever the node.
Covers(c, s) == \/ c.wall > s.wall
                \/ c.wall = s.wall /\ c.counter >= s.counter

\* The maximum of a finite set of numbers, as a singleton set.
Top(S) == {m \in S : \A x \in S : x <= m}

-----------------------------------------------------------------------------
\* HybridClock.send() at physical time pt.
Send(c, pt) ==
    IF pt > c.wall THEN [wall |-> pt, counter |-> 0]
                   ELSE [wall |-> c.wall, counter |-> c.counter + 1]

\* The reading after n send() calls in a row within one millisecond.
SendMany(c, pt, n) ==
    [Send(c, pt) EXCEPT !.counter = @ + (n - 1)]

\* guard(): send() and receive() throw once the counter passes MAX_COUNTER.
Guard(c) == c.counter <= MaxCounter

\* The wall of a remote stamp as receive() counts it.
ReceivedWall(s, pt) == IF IsFutureStamp(s, pt) THEN pt + Drift ELSE s.wall

\* HybridClock.receive(s) at physical time pt.
Receive(c, s, pt) ==
    LET rw == ReceivedWall(s, pt)
        w  == CHOOSE m \in {c.wall, rw, pt} : \A x \in {c.wall, rw, pt} : x <= m
    IN  [wall |-> w,
         counter |->
            IF w = c.wall /\ w = rw
            THEN 1 + IF c.counter > s.counter THEN c.counter ELSE s.counter
            ELSE IF w = c.wall THEN c.counter + 1
            ELSE IF w = rw THEN s.counter + 1
            ELSE 0]

\* The readings a clock can be at after witness() of every stamp of S.  The
\* code walks arrays whose order the model does not keep; the order moves the
\* counter by at most Cardinality(S) - 1, so that much is left open.
WitnessAll(c, S, pt) ==
    LET n == Cardinality(S)
        walls == {c.wall, pt} \cup {ReceivedWall(s, pt) : s \in S}
        low(w) == Top({s.counter + 1 : s \in {t \in S : ReceivedWall(t, pt) = w}}
                      \cup {k \in {c.counter + n} : c.wall = w}
                      \cup {k \in {n - 1} : pt = w})
    IN  IF S = {} THEN {c}
        ELSE UNION {[wall : {w}, counter : UNION {k..(k + n - 1) : k \in low(w)}]
                    : w \in Top(walls)}
=============================================================================
