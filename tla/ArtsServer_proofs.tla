-------------------------- MODULE ArtsServer_proofs --------------------------
(***************************************************************************)
(* Proofs about ArtsServer, for any finite set of devices: type            *)
(* correctness, and that count and connection follow the streams and the   *)
(* closes of devices that were not opened.  The second is inductive once   *)
(* it is known that a connection was cut only under a positive count.      *)
(***************************************************************************)
EXTENDS ArtsServer, FiniteSetTheorems, TLAPS

\* A play that goes on has not spun to the limit.
SpinInv == \A d \in Devices : pc[d] = "play" => spin[d] < SpinLimit

\* A test cuts what there is; the next connection starts from a count of zero.
CutInv == cut => count > 0

IInv == TypeOK /\ SpinInv /\ CutInv /\ ConnectionFollowsStreams
-----------------------------------------------------------------------------
\* Streams is a finite set, and zero is the size of none but the empty one.
LEMMA StreamsFinite ==
  /\ IsFiniteSet(Streams) /\ Cardinality(Streams) \in Nat
  /\ Cardinality(Streams) = 0 <=> Streams = {}
<1>1. IsFiniteSet(Streams)
  BY FS_Subset, ArtsAssumption DEF Streams
<1>2. QED
  BY <1>1, FS_CardinalityType, FS_EmptySet

\* Init establishes the invariant.
LEMMA Initially == Init => IInv
<1> SUFFICES ASSUME Init PROVE IInv
  OBVIOUS
<1>1. TypeOK
  <2>1. 0 \in 0 .. Bytes /\ 0 \in 0 .. SpinLimit
    BY ArtsAssumption
  <2>2. connected \in BOOLEAN /\ cut \in BOOLEAN
    BY Zenon DEF Init
  <2>3. QED
    BY <2>1, <2>2 DEF Init, TypeOK
<1>2. Streams = {}
  BY DEF Init, Streams
<1>3. ~connected /\ ~cut
  BY Zenon DEF Init
<1>4. QED
  BY <1>1, <1>2, <1>3, FS_EmptySet DEF Init, IInv, SpinInv, CutInv, ConnectionFollowsStreams

\* The steps that neither open nor close a stream keep Streams.
LEMMA SameStreams ==
  ASSUME TypeOK, NEW d \in Devices, NEW stage, Goto(d, stage),
         pc[d] \in {"open", "play"} <=> stage \in {"open", "play"}
  PROVE  Streams' = Streams
BY DEF TypeOK, Goto, Streams

\* Every step keeps the types and leaves a play its rounds.
LEMMA TypeKept == ASSUME IInv, [Next]_vars PROVE (TypeOK /\ SpinInv)'
<1> USE DEF IInv, TypeOK, SpinInv
<1>1. CASE Test \/ TestSuspended \/ UNCHANGED vars
  <2>1. connected' \in BOOLEAN /\ cut' \in BOOLEAN
    BY <1>1, Zenon DEF Test, TestSuspended, FreedAt, vars
  <2>2. UNCHANGED <<pc, count, strays, left, spin>>
    BY <1>1 DEF Test, TestSuspended, vars
  <2>3. QED
    BY <2>1, <2>2
<1>2. ASSUME NEW d \in Devices,
             OptionRefused(d) \/ OpenDisallowed(d) \/ OpenUnconnected(d) \/ OpenNoStream(d)
             \/ Open(d) \/ Close(d)
      PROVE  (TypeOK /\ SpinInv)'
  <2>1. PICK stage \in {"none", "refused", "disallowed", "open"} : Goto(d, stage)
    BY <1>2 DEF OptionRefused, OpenDisallowed, OpenUnconnected, OpenNoStream, Open, Close
  <2>2. count' \in Int /\ strays' \in Nat /\ UNCHANGED <<left, spin>>
    BY <1>2 DEF OptionRefused, OpenDisallowed, OpenUnconnected, OpenNoStream, Open, Close
  <2>3. connected' \in BOOLEAN /\ cut' \in BOOLEAN
    BY <1>2, Zenon
       DEF OptionRefused, OpenDisallowed, OpenUnconnected, OpenNoStream, Open, Close, FreedAt
  <2>4. QED
    BY <2>1, <2>2, <2>3 DEF Goto
<1>3. ASSUME NEW d \in Devices, Play(d) PROVE (TypeOK /\ SpinInv)'
  BY <1>3, ArtsAssumption DEF Play, Goto
<1>4. ASSUME NEW d \in Devices, Round(d) PROVE (TypeOK /\ SpinInv)'
  <2>1. ASSUME NEW wrote \in 0 .. Bytes, PlayRound(d, wrote) PROVE (TypeOK /\ SpinInv)'
    <3>1. left' \in [Devices -> 0 .. Bytes]
      BY <1>4, <2>1, ArtsAssumption DEF PlayRound, Remaining
    <3>2. spin' \in [Devices -> 0 .. SpinLimit] /\ spin'[d] = Spins(d, wrote)
      BY <2>1, ArtsAssumption DEF PlayRound, Spins
    <3>3. pc' = [pc EXCEPT ![d] = pc'[d]] /\ pc'[d] \in {"open", "play"}
          /\ (pc'[d] = "play" => spin'[d] # SpinLimit)
      BY <2>1 DEF PlayRound, Goto
    <3>4. QED
      BY <2>1, <3>1, <3>2, <3>3, ArtsAssumption DEF PlayRound
  <2>2. ASSUME PlayError(d) PROVE (TypeOK /\ SpinInv)'
    BY <2>2 DEF PlayError, Goto
  <2>3. QED
    BY <1>4, <2>1, <2>2 DEF Round
<1>5. QED
  BY <1>1, <1>2, <1>3, <1>4 DEF Next

\* A step that leaves the streams, the closes and the count alone.
LEMMA SameCount ==
  ASSUME IInv, Streams' = Streams, UNCHANGED <<count, strays, connected, cut>>
  PROVE  (CutInv /\ ConnectionFollowsStreams)'
BY DEF IInv, CutInv, ConnectionFollowsStreams

\* Every step that changes count, connection or streams changes the others too.
LEMMA ConnectionKept == ASSUME IInv, [Next]_vars PROVE (CutInv /\ ConnectionFollowsStreams)'
<1> USE DEF CutInv, ConnectionFollowsStreams
<1>0. /\ TypeOK /\ count \in Int /\ strays \in Nat /\ Cardinality(Streams) \in Nat
      /\ count = Cardinality(Streams) - strays
      /\ connected <=> count > 0 /\ ~cut
      /\ cut => count > 0
  BY StreamsFinite DEF IInv, TypeOK
<1>1. CASE UNCHANGED vars
  BY <1>1, SameCount DEF vars, Streams
<1>2. CASE Test
  <2>1. Streams' = Streams
    BY <1>2 DEF Test, Streams
  <2>2. UNCHANGED <<count, strays>> /\ ~connected' /\ (cut' <=> cut \/ connected)
    BY <1>2 DEF Test
  <2>3. QED
    BY <1>0, <2>1, <2>2
<1>3. CASE TestSuspended
  <2>1. Streams' = Streams /\ UNCHANGED <<count, strays, cut>>
    BY <1>3 DEF TestSuspended, Streams
  <2>2. connected' <=> count # 0 /\ connected
    BY <1>3 DEF TestSuspended, FreedAt
  <2>3. QED
    BY <1>0, <2>1, <2>2
<1>4. ASSUME NEW d \in Devices, OptionRefused(d) \/ OpenDisallowed(d) \/ OpenUnconnected(d)
      PROVE  (CutInv /\ ConnectionFollowsStreams)'
  BY <1>0, <1>4, SameStreams, SameCount DEF OptionRefused, OpenDisallowed, OpenUnconnected
<1>5. ASSUME NEW d \in Devices, OpenNoStream(d) PROVE (CutInv /\ ConnectionFollowsStreams)'
  <2>1. Streams' = Streams /\ UNCHANGED <<count, strays, cut>>
    BY <1>0, <1>5, SameStreams DEF OpenNoStream
  <2>2. connected' <=> count # 0 /\ connected
    BY <1>5 DEF OpenNoStream, FreedAt
  <2>3. QED
    BY <1>0, <2>1, <2>2
<1>6. ASSUME NEW d \in Devices, Open(d) PROVE (CutInv /\ ConnectionFollowsStreams)'
  <2>1. Streams' = Streams \cup {d} /\ d \notin Streams
    BY <1>0, <1>6 DEF Open, Goto, Streams, TypeOK
  <2>2. Cardinality(Streams') = Cardinality(Streams) + 1
    BY <2>1, StreamsFinite, FS_AddElement
  <2>3. count' = count + 1 /\ UNCHANGED <<strays, cut>> /\ (connected' <=> connected \/ count = 0)
    BY <1>6 DEF Open
  <2>4. QED
    BY <1>0, <2>2, <2>3
<1>7. ASSUME NEW d \in Devices, Play(d) PROVE (CutInv /\ ConnectionFollowsStreams)'
  BY <1>0, <1>7, SameStreams, SameCount DEF Play
<1>8. ASSUME NEW d \in Devices, Round(d) PROVE (CutInv /\ ConnectionFollowsStreams)'
  <2>1. PICK stage \in {"open", "play"} : Goto(d, stage)
    BY <1>8 DEF Round, PlayRound, PlayError
  <2>2. pc[d] = "play" /\ UNCHANGED <<count, connected, strays, cut>>
    BY <1>8 DEF Round, PlayRound, PlayError
  <2>3. QED
    BY <1>0, <2>1, <2>2, SameStreams, SameCount
<1>9. ASSUME NEW d \in Devices, Close(d) PROVE (CutInv /\ ConnectionFollowsStreams)'
  <2>1. count' = Cardinality(Streams') - strays'
    <3>1. CASE pc[d] = "open"
      <4>1. Streams' = Streams \ {d} /\ d \in Streams
        BY <1>0, <1>9, <3>1 DEF Close, Goto, Streams, TypeOK
      <4>2. Cardinality(Streams') = Cardinality(Streams) - 1
        BY <4>1, StreamsFinite, FS_RemoveElement
      <4>3. count' = count - 1 /\ strays' = strays
        BY <1>9, <3>1 DEF Close
      <4>4. QED
        BY <1>0, <4>2, <4>3
    <3>2. CASE pc[d] # "open"
      <4>1. Streams' = Streams
        BY <1>0, <1>9, <3>2, SameStreams DEF Close
      <4>2. count' = count - 1 /\ strays' = strays + 1
        BY <1>9, <3>2 DEF Close
      <4>3. QED
        BY <1>0, <4>1, <4>2
    <3>3. QED
      BY <3>1, <3>2
  <2>2. count' = count - 1 /\ (connected' <=> count - 1 # 0 /\ connected)
        /\ (cut' <=> cut /\ count - 1 # 0)
    BY <1>9 DEF Close, FreedAt
  <2>3. QED
    BY <1>0, <2>1, <2>2
<1>10. QED
  BY <1>1, <1>2, <1>3, <1>4, <1>5, <1>6, <1>7, <1>8, <1>9 DEF Next

\* The invariant holds in every state.
LEMMA Inductive == Spec => []IInv
<1>1. IInv /\ [Next]_vars => IInv'
  BY TypeKept, ConnectionKept DEF IInv
<1>2. QED
  BY Initially, <1>1, PTL DEF Spec
-----------------------------------------------------------------------------
\* The types of all variables, and with them the limits of num_bytes and of
\* spindetect in ao_plugin_play.
THEOREM TypeCorrect == Spec => []TypeOK
BY Inductive, PTL DEF IInv

\* For any number of devices, in whatever order they are opened, refused, tested
\* for and closed, server_open_count is the number of open streams less the
\* closes of devices that never opened, and decides on the connection until a
\* test cuts it.
THEOREM CountFollows == Spec => []ConnectionFollowsStreams
BY Inductive, PTL DEF IInv
=============================================================================
