---------------------------- MODULE DeviceStack ----------------------------
(***************************************************************************)
(* The device of a simulator run, as a quantum program drives it:          *)
(* CheckedDevice (renames qubits, rejects bad arguments) around            *)
(* SQ2U3Device (turns one-qubit gates into matrices) around the            *)
(* state-vector simulator.  Calls come from the rank threads one at a      *)
(* time, under the context mutex, in any order.  A panic anywhere aborts   *)
(* the process.                                                            *)
(***************************************************************************)
EXTENDS NaiveDevice

CONSTANTS
  Capacity,       \* the --qn argument: qubits the simulator holds at once
  MaxAlloc,       \* bound: qubits a program allocates in all
  MaxOverlong     \* bound: calls after an EPR that left the vector too long
                  \* (later ones can make it ever longer)

ASSUME DeviceAssumption ==
  /\ Capacity \in Nat
  /\ MaxAlloc \in Nat
  /\ MaxOverlong \in Nat

VARIABLES
  qubit_counter,  \* CheckedDevice: the next qubit name
  qubit_mapping,  \* CheckedDevice: the inner qubit behind each name in use
  dev,            \* the NaiveSimulator
  panic,          \* where the process panicked: "none", in the "checked"
                  \* wrapper, at the simulator's "capacity", in its assertion on
                  \* the "norm" of the vector, or at a lookup or an assertion of
                  \* the "device" that the wrapper should prevent
  last,           \* history: the call just completed, with the bit it returned
  moved,          \* history: a gate had a controller that was not at the position
                  \* of its number, where the simulator looks for it (naive.rs:167)
  overlong        \* history: calls since EPR was applied to qubits that measured
                  \* to different bits (naive.rs:368), this one included; or 0

history == <<last, moved, overlong>>
vars == <<qubit_counter, qubit_mapping, dev, panic, last, moved, overlong>>

Done(op, C, qs, b) == [op |-> op, controls |-> C, qubits |-> qs, bit |-> b]

InUse == DOMAIN qubit_mapping

\* The names a program passes: those in use and one that is not.  A freed name
\* and one never given out are the same to the mapping; MaxAlloc is the latter.
Name == InUse \cup {MaxAlloc}

Init ==
  /\ qubit_counter = 0
  /\ qubit_mapping = [q \in {} |-> 0]
  /\ dev = New
  /\ panic = "none"
  /\ last = Done("none", {}, <<>>, 0)
  /\ moved = FALSE
  /\ overlong = 0

Running == panic = "none" /\ overlong <= MaxOverlong

Panic(where) ==
  /\ panic' = where
  /\ UNCHANGED <<qubit_counter, qubit_mapping, dev, history>>

\* The history after a call: o is what the simulator made of it.
Record(op, C, qs, o) ==
  /\ last' = Done(op, C, qs, o.bit)
  /\ moved' = (moved \/ \E c \in C : dev.map[qubit_mapping[c]] # qubit_mapping[c])
  /\ overlong' = IF overlong > 0 THEN overlong + 1 ELSE IF op = "EPR" THEN o.bit ELSE 0

----------------------------------------------------------------------------
Alloc ==
  /\ Running
  /\ qubit_counter < MaxAlloc
  /\ IF Cardinality(Allocated(dev)) + 1 > Capacity
       THEN Panic("capacity")
       ELSE /\ dev' = Allocate(dev)
            /\ qubit_counter' = qubit_counter + 1
            /\ qubit_mapping' = [q \in InUse \cup {qubit_counter} |->
                                   IF q = qubit_counter THEN dev.counter
                                                        ELSE qubit_mapping[q]]
            /\ Record("alloc", {}, <<qubit_counter>>, Outcome(0, dev, TRUE))
            /\ UNCHANGED panic

\* The arguments of a call: control qubits C (a set, their order does not
\* matter) and the sequence qs of the qubits acted on.
Duplicate(C, qs) ==
  \/ \E i, j \in DOMAIN qs : i < j /\ qs[i] = qs[j]
  \/ \E i \in DOMAIN qs : qs[i] \in C

\* A wrapper that lets a gate have a qubit twice.
Accepted_Twice(C, qs) == C \subseteq InUse /\ \A i \in DOMAIN qs : qs[i] \in InUse

\* What CheckedDevice passes on, with inner qubits for names.
Accepted(C, qs) ==
  /\ ~Duplicate(C, qs)
  /\ C \subseteq InUse
  /\ \A i \in DOMAIN qs : qs[i] \in InUse

Inner(q) == qubit_mapping[q]
InnerSet(C) == {qubit_mapping[c] : c \in C}

\* Lookups the simulator makes, and its assertion that two qubits differ.
Sound(qs) ==
  /\ \A i \in DOMAIN qs : Inner(qs[i]) \in Allocated(dev)
  /\ \A i, j \in DOMAIN qs : i # j => Inner(qs[i]) # Inner(qs[j])

\* A call with bad arguments, whatever the operation.
Refuse(C, qs) == Running /\ ~Accepted(C, qs) /\ Panic("checked")

\* A call that reaches the simulator has one of the outcomes given, and leaves
\* the names as in mapping.
Call(op, C, qs, outcomes, mapping) ==
  /\ Running
  /\ Accepted(C, qs)
  /\ IF ~Sound(qs) THEN Panic("device")
     ELSE \E o \in outcomes :
            IF ~o.ok THEN Panic("norm")
            ELSE /\ dev' = o.dev
                 /\ qubit_mapping' = mapping
                 /\ Record(op, C, qs, o)
                 /\ UNCHANGED <<qubit_counter, panic>>

Free(q) ==
  Call("free", {}, <<q>>, FreeOutcomes(dev, Inner(q)), [p \in InUse \ {q} |-> qubit_mapping[p]])

\* One-qubit gates reach the simulator as AnySQ with a matrix.
SQMatrix == [X |-> MatX, Z |-> MatZ, H |-> MatH]

SQGate(op, C, q) ==
  LET after == SingleQubitGate(dev, InnerSet(C), Inner(q), SQMatrix[op])
  IN  Call(op, C, <<q>>, {Outcome(0, after, TRUE)}, qubit_mapping)

TQMatrix == [Swap |-> MatSwap, CNOT |-> MatCNOT, CZ |-> MatCZ]

TQGate(op, q1, q2) ==
  LET after == TwoQubitGate(dev, {}, Inner(q1), Inner(q2), TQMatrix[op])
  IN  Call(op, {}, <<q1, q2>>, {Outcome(0, after, TRUE)}, qubit_mapping)

Measure(q) == Call("measure", {}, <<q>>, MeasureOutcomes(dev, Inner(q)), qubit_mapping)

Reset(q) == Call("Reset", {}, <<q>>, ResetOutcomes(dev, Inner(q)), qubit_mapping)

Epr(q1, q2) ==
  Call("EPR", {}, <<q1, q2>>, EprOutcomes(dev, Inner(q1), Inner(q2)), qubit_mapping)

----------------------------------------------------------------------------
ControlSets == {C \in SUBSET Name : Cardinality(C) <= 1}

Next ==
  \/ Alloc
  \/ \E q \in Name :
       \/ Free(q)
       \/ Measure(q)
       \/ Reset(q)
       \/ \E op \in {"H", "Z"} : SQGate(op, {}, q)
       \/ \E C \in ControlSets : SQGate("X", C, q)
       \/ \E C \in ControlSets : Refuse(C, <<q>>)
       \/ \E p \in Name :
            \/ Refuse({}, <<q, p>>)
            \/ Epr(q, p)
            \/ \E op \in {"Swap", "CNOT", "CZ"} : TQGate(op, q, p)

Spec == Init /\ [][Next]_vars

\* For TLC: no step depends on last, and none tells a vector from its negative.
UpToSign(v) == {v, [i \in DOMAIN v |-> Times(-1, v[i])]}
View ==
  <<qubit_counter, qubit_mapping, [dev EXCEPT !.state = UpToSign(@)], panic, moved, overlong>>

----------------------------------------------------------------------------
\* The three numberings of a qubit stay in step, whatever order qubits are
\* allocated, measured and freed in: the two maps of the simulator are inverse
\* to each other, every qubit has exactly one bit of the vector and every bit
\* one qubit; the names in use stand for the allocated qubits, one each; and
\* neither counter has reached a number in use.
NumberingsAgree ==
  /\ DOMAIN dev.state = 0 .. 2^Len(dev.inv) - 1
  /\ \A q \in Allocated(dev) :
       dev.map[q] \in 0 .. Len(dev.inv) - 1 /\ dev.inv[dev.map[q] + 1] = q
  /\ \A i \in DOMAIN dev.inv :
       dev.inv[i] \in Allocated(dev) /\ dev.map[dev.inv[i]] = i - 1
  /\ {qubit_mapping[q] : q \in InUse} = Allocated(dev)
  /\ \A q, p \in InUse : qubit_mapping[q] = qubit_mapping[p] => q = p
  /\ \A q \in InUse : q < qubit_counter
  /\ \A q \in Allocated(dev) : q < dev.counter

\* A process panics for a cause.  Whatever a program passes, no lookup in the
\* simulator fails and no gate gets a qubit twice: CheckedDevice stops every bad
\* argument first.  And it is refused a qubit only while it holds as many as the
\* simulator was started for: freed ones always come back.
PanicsHaveCause ==
  /\ panic # "device"
  /\ panic = "capacity" => Cardinality(InUse) = Capacity
=============================================================================
