---------------------------- MODULE MinipcProofs ----------------------------
(***************************************************************************)
(* Remote calls of Minipc, for every set of channels, any number of        *)
(* places, calls and restarts: type correctness, the refinement of Rpc,    *)
(* and how far a channel falls behind after calls that timed out.          *)
(***************************************************************************)
EXTENDS Minipc, FiniteSetTheorems, SequenceTheorems, WellFoundedInduction, TLAPS

-----------------------------------------------------------------------------
(* The inductive invariant.                                                *)

Latest(seq) == Channel!Latest(seq)

\* Variables are functions on the channels, or on the places.
Typed ==
  /\ client \in [Chans -> {"new", "idle", "waiting", "closed", "killed"}]
  /\ state \in [Chans -> {"none", "backlog", "accepted", "closed", "orphan"}]
  /\ fd \in [Places -> Chans \cup {"none"}]
  /\ requests \in [Chans -> Seq(Request)] /\ replies \in [Chans -> Seq(Reply)]
  /\ reset \subseteq Chans /\ ready \subseteq Places \cup {Listen}
  /\ function \in [Chans -> Functions] /\ calls \in [Chans -> 0 .. MaxCalls]
  /\ executed \in [Chans -> Seq(1 .. MaxCalls)] /\ answered \in [Chans -> Seq(1 .. MaxCalls)]
  /\ timeouts \in [Chans -> Nat]
  /\ result \in [Chans -> {"ok", "ETIMEDOUT", "EPROTO", "EREMOTEIO"}]
  /\ upsets \in 0 .. MaxUpsets

\* A channel has a place exactly when it is accepted, and then only one.
Seated ==
  /\ \A c \in Chans : client[c] = "new" => state[c] = "none"
  /\ \A c \in Chans : state[c] = "accepted" => \E i \in Places : fd[i] = c
  /\ \A i \in Places : fd[i] # "none" => state[fd[i]] = "accepted"
  /\ \A i, j \in Places : fd[i] = fd[j] /\ fd[i] # "none" => i = j

\* A place that select() found is taken until it is handled.
Handling == \A i \in ready \ {Listen} : fd[i] # "none"

\* The calls of a channel pass through it in order: those answered, those in the
\* replies, those executed, those in the requests.
InOrder(c) ==
  /\ \A i \in 1 .. Len(requests[c]) :
       Latest(executed[c]) < requests[c][i].call /\ requests[c][i].call <= calls[c]
  /\ \A i \in 1 .. Len(replies[c]) :
       Latest(answered[c]) < replies[c][i].call /\ replies[c][i].call <= Latest(executed[c])
  /\ Latest(answered[c]) <= Latest(executed[c]) /\ Latest(executed[c]) <= calls[c]
  /\ \A i \in 1 .. Len(executed[c]) : executed[c][i] <= calls[c]
  /\ \A i \in 1 .. Len(answered[c]) : answered[c][i] <= calls[c]

\* Is a call under way?
Waits(c) == IF client[c] = "waiting" THEN 1 ELSE 0

\* A call falls behind by a timeout, and by itself while it waits.
Behind(c) ==
  /\ client[c] = "new" => calls[c] = 0
  /\ timeouts[c] + Waits(c) <= calls[c]
  /\ state[c] # "closed" /\ client[c] \in {"new", "idle", "waiting"}
       => calls[c] <= Latest(answered[c]) + timeouts[c] + Waits(c)

IInv == Typed /\ Seated /\ Handling /\ \A c \in Chans : InOrder(c) /\ Behind(c)

-----------------------------------------------------------------------------
(* Lemmas about the operators of the model.                                *)

\* The number of the latest call in a sequence is one of those in it, or 0.
LEMMA LatestType ==
  ASSUME NEW n \in Nat, NEW seq \in Seq(1 .. n)
  PROVE  Latest(seq) \in 0 .. n
BY EmptySeq, LenProperties, ElementOfSeq DEF Latest, Channel!Latest

\* The latest call is the one that was appended last.
LEMMA LatestOfAppend ==
  ASSUME NEW S, NEW seq \in Seq(S), NEW e \in S
  PROVE  Latest(Append(seq, e)) = e
<1>1. Append(seq, e) # <<>> /\ Len(Append(seq, e)) = Len(seq) + 1
      /\ Append(seq, e)[Len(seq) + 1] = e
  BY AppendProperties
<1> QED
  BY <1>1 DEF Latest, Channel!Latest

\* What is appended to a sequence of calls is as old as the calls in it.
LEMMA AppendBounded ==
  ASSUME NEW n \in Nat, NEW seq \in Seq(1 .. n), NEW e \in 1 .. n, NEW bound \in Nat,
         e <= bound, \A i \in 1 .. Len(seq) : seq[i] <= bound
  PROVE  \A i \in 1 .. Len(Append(seq, e)) : Append(seq, e)[i] <= bound
<1>1. /\ Len(Append(seq, e)) = Len(seq) + 1 /\ Append(seq, e)[Len(seq) + 1] = e
      /\ \A i \in 1 .. Len(seq) : Append(seq, e)[i] = seq[i]
  BY AppendProperties
<1>2. Len(seq) \in Nat
  BY LenProperties
<1>3. ASSUME NEW i \in 1 .. Len(seq) + 1
      PROVE  Append(seq, e)[i] <= bound
  <2>1. CASE i = Len(seq) + 1
    BY <1>1, <2>1
  <2>2. CASE i # Len(seq) + 1
    <3>1. i \in 1 .. Len(seq)
      BY <1>2, <2>2
    <3> QED
      BY <1>1, <3>1
  <2> QED
    BY <2>1, <2>2
<1> QED
  BY <1>1, <1>3

\* A set of natural numbers that is not empty has a least element.
LEMMA MinInSet ==
  ASSUME NEW S \in SUBSET Nat, S # {}
  PROVE  Min(S) \in S /\ \A m \in S : Min(S) <= m
<1> DEFINE UpTo(n) == S \cap 0 .. n
           Parts == {UpTo(n) : n \in S}
<1>1. Parts \subseteq FiniteSubsetsOf(Nat)
  <2>1. ASSUME NEW n \in S
        PROVE  UpTo(n) \in SUBSET Nat /\ IsFiniteSet(UpTo(n))
    <3>1. IsFiniteSet(0 .. n)
      BY FS_Interval
    <3>2. QED
      BY <3>1, FS_Subset, Zenon
  <2>2. QED
    BY <2>1 DEF FiniteSubsetsOf
<1>2. Parts # {}
  OBVIOUS
<1>3. PICK P \in Parts : \A Q \in Parts : ~ (<<Q, P>> \in StrictSubsetOrdering(Nat))
  <2>1. IsWellFoundedOn(StrictSubsetOrdering(Nat), FiniteSubsetsOf(Nat))
    BY FS_StrictSubsetOrderingWellFounded, Zenon
  <2>2. QED
    BY <2>1, <1>1, <1>2, WFMin, Zenon
<1>4. PICK n \in S : P = UpTo(n)
  BY <1>3
<1>5. ASSUME NEW m \in S
      PROVE  n <= m
  <2>1. SUFFICES ASSUME m < n PROVE FALSE
    OBVIOUS
  <2>2. UpTo(m) \subseteq UpTo(n) /\ UpTo(m) # UpTo(n)
    BY <2>1
  <2>3. UpTo(m) \in Parts /\ UpTo(n) \in Parts
    OBVIOUS
  <2>4. <<UpTo(m), UpTo(n)>> \in StrictSubsetOrdering(Nat)
    BY <2>2, <2>3, <1>1 DEF StrictSubsetOrdering
  <2>5. QED
    BY <2>3, <2>4, <1>3, <1>4
<1>6. QED
  BY <1>5, Zenon DEF Min

\* What a channel's streams and counters hold are natural numbers.
LEMMA StreamTypes ==
  ASSUME Typed, NEW c \in Chans
  PROVE  /\ Len(requests[c]) \in Nat /\ Len(replies[c]) \in Nat
         /\ Len(executed[c]) \in Nat /\ Len(answered[c]) \in Nat
         /\ calls[c] \in Nat /\ timeouts[c] \in Nat
         /\ Latest(executed[c]) \in Nat /\ Latest(answered[c]) \in Nat
         /\ \A i \in 1 .. Len(requests[c]) : requests[c][i].call \in Nat
         /\ \A i \in 1 .. Len(replies[c]) : replies[c][i].call \in Nat
         /\ \A i \in 1 .. Len(executed[c]) : executed[c][i] \in Nat
         /\ \A i \in 1 .. Len(answered[c]) : answered[c][i] \in Nat
<1>1. /\ Len(requests[c]) \in Nat /\ Len(replies[c]) \in Nat
      /\ Len(executed[c]) \in Nat /\ Len(answered[c]) \in Nat
  BY LenProperties DEF Typed
<1>2. calls[c] \in Nat /\ timeouts[c] \in Nat
  BY MinipcAssumption DEF Typed
<1>3. Latest(executed[c]) \in Nat /\ Latest(answered[c]) \in Nat
  BY LatestType, MinipcAssumption DEF Typed
<1>4. ASSUME NEW i \in 1 .. Len(requests[c])
      PROVE  requests[c][i].call \in Nat
  <2>1. requests[c][i] \in Request
    BY ElementOfSeq DEF Typed
  <2> QED
    BY <2>1, MinipcAssumption DEF Request
<1>5. ASSUME NEW i \in 1 .. Len(replies[c])
      PROVE  replies[c][i].call \in Nat
  <2>1. replies[c][i] \in Reply
    BY ElementOfSeq DEF Typed
  <2> QED
    BY <2>1, MinipcAssumption DEF Reply
<1>6. \A i \in 1 .. Len(executed[c]) : executed[c][i] \in Nat
  BY ElementOfSeq, MinipcAssumption DEF Typed
<1>7. \A i \in 1 .. Len(answered[c]) : answered[c][i] \in Nat
  BY ElementOfSeq, MinipcAssumption DEF Typed
<1> QED
  BY <1>1, <1>2, <1>3, <1>4, <1>5, <1>6, <1>7

\* The numbers of a channel.
LEMMA NumberTypes ==
  ASSUME Typed, NEW c \in Chans
  PROVE  /\ calls[c] \in Nat /\ timeouts[c] \in Nat
         /\ Latest(executed[c]) \in Nat /\ Latest(answered[c]) \in Nat
BY StreamTypes

\* The channels are in order as long as nothing moves in their streams.
LEMMA StillInOrder ==
  ASSUME NEW c \in Chans, InOrder(c),
         requests'[c] = requests[c], replies'[c] = replies[c], executed'[c] = executed[c],
         answered'[c] = answered[c], calls'[c] = calls[c]
  PROVE  InOrder(c)'
BY DEF InOrder, Latest, Channel!Latest

\* Nor does a channel fall behind as long as its client does nothing.
LEMMA StillBehind ==
  ASSUME NEW c \in Chans, Behind(c),
         client'[c] = client[c], calls'[c] = calls[c], timeouts'[c] = timeouts[c],
         answered'[c] = answered[c], state[c] = "closed" => state'[c] = "closed"
  PROVE  Behind(c)'
BY DEF Behind, Waits, Latest, Channel!Latest

-----------------------------------------------------------------------------
(* The invariant holds at first, and every step preserves it.              *)

\* At first no channel has done anything.
LEMMA InitInvariant == Init => IInv
<1> SUFFICES ASSUME Init PROVE IInv
  OBVIOUS
<1> USE DEF Init
<1>1. Typed
  BY MinipcAssumption, EmptySeq DEF Typed, Functions
<1>2. Seated /\ Handling
  BY NoChannelAssumption DEF Seated, Handling
<1>3. ASSUME NEW c \in Chans
      PROVE  InOrder(c) /\ Behind(c)
  BY DEF InOrder, Behind, Waits, Latest, Channel!Latest
<1> QED
  BY <1>1, <1>2, <1>3 DEF IInv

\* minipc_client_create() preserves the invariant.
LEMMA CreateStep ==
  ASSUME IInv, NEW c \in Chans, MinipcClientCreate(c)
  PROVE  IInv'
<1> USE DEF IInv, MinipcClientCreate, history
<1>1. Typed'
  BY DEF Typed
<1>2. Seated' /\ Handling'
  BY DEF Typed, Seated, Handling
<1>3. ASSUME NEW d \in Chans
      PROVE  InOrder(d)' /\ Behind(d)'
  <2>1. InOrder(d)'
    BY StillInOrder
  <2>2. CASE d # c
    BY <2>1, <2>2, StillBehind DEF Typed
  <2>3. CASE d = c
    <3>1. Latest(answered[c]) \in Nat
      BY LatestType, MinipcAssumption DEF Typed
    <3>2. QED
      BY <2>1, <2>3, <3>1 DEF Typed, Behind, Waits
  <2> QED
    BY <2>2, <2>3
<1> QED
  BY <1>1, <1>2, <1>3

\* The send() of minipc_call() preserves the invariant.
LEMMA CallSendStep ==
  ASSUME IInv, NEW c \in Chans, NEW f \in Functions, MinipcCallSend(c, f)
  PROVE  IInv'
<1> DEFINE request == [call |-> calls[c] + 1, function |-> f]
<1> USE DEF IInv, MinipcCallSend, server, history
<1>1. request \in Request
  BY MinipcAssumption DEF Typed, Request
<1>2. Append(requests[c], request) \in Seq(Request)
  BY <1>1, AppendProperties DEF Typed
<1>3. Typed'
  BY <1>2, MinipcAssumption DEF Typed
<1>4. Seated' /\ Handling'
  BY DEF Typed, Seated, Handling
<1>5. ASSUME NEW d \in Chans
      PROVE  InOrder(d)' /\ Behind(d)'
  <2>1. CASE d # c
    BY <2>1, StillInOrder, StillBehind DEF Typed
  <2>2. CASE d = c
    <3>1. /\ Len(requests'[c]) = Len(requests[c]) + 1
          /\ \A i \in 1 .. Len(requests[c]) : requests'[c][i] = requests[c][i]
          /\ requests'[c][Len(requests[c]) + 1] = request
      BY <1>1, AppendProperties DEF Typed
    <3>2. calls'[c] = calls[c] + 1 /\ UNCHANGED <<replies, executed, answered, timeouts, state>>
      BY DEF Typed
    <3>3. \A i \in 1 .. Len(requests'[c]) :
            Latest(executed[c]) < requests'[c][i].call /\ requests'[c][i].call <= calls[c] + 1
      <4>1. /\ calls[c] \in Nat /\ Latest(executed[c]) <= calls[c] /\ Latest(executed[c]) \in Nat
            /\ Len(requests[c]) \in Nat
        BY StreamTypes DEF InOrder
      <4>2. \A i \in 1 .. Len(requests[c]) :
              /\ Latest(executed[c]) < requests[c][i].call /\ requests[c][i].call <= calls[c]
              /\ requests[c][i].call \in Nat
        BY StreamTypes DEF InOrder
      <4>3. Latest(executed[c]) < calls[c] + 1 /\ request.call = calls[c] + 1
        BY <4>1
      <4> QED
        BY <3>1, <4>1, <4>2, <4>3
    <3>4. /\ Latest(executed[c]) <= calls[c] + 1
          /\ \A i \in 1 .. Len(executed[c]) : executed[c][i] <= calls[c] + 1
          /\ \A i \in 1 .. Len(answered[c]) : answered[c][i] <= calls[c] + 1
      <4>1. \A m \in Nat : m <= calls[c] => m <= calls[c] + 1
        BY NumberTypes
      <4>2. Latest(executed[c]) <= calls[c] + 1
        BY <4>1, NumberTypes DEF InOrder
      <4>3. \A i \in 1 .. Len(executed[c]) : executed[c][i] <= calls[c] + 1
        BY <4>1, StreamTypes DEF InOrder
      <4>4. \A i \in 1 .. Len(answered[c]) : answered[c][i] <= calls[c] + 1
        BY <4>1, StreamTypes DEF InOrder
      <4> QED
        BY <4>2, <4>3, <4>4
    <3>5. Latest(executed[c])' = Latest(executed[c]) /\ Latest(answered[c])' = Latest(answered[c])
      BY <3>2 DEF Latest, Channel!Latest
    <3>6. client[c] = "idle" /\ client'[c] = "waiting" /\ state[c] # "closed"
      BY DEF Typed
    <3>7. InOrder(c)'
      BY <3>2, <3>3, <3>4, <3>5 DEF InOrder
    <3>8. Behind(c)'
      <4>1. Waits(c) = 0 /\ Waits(c)' = 1
        BY <3>6 DEF Waits
      <4>2. timeouts[c] <= calls[c] /\ calls[c] <= Latest(answered[c]) + timeouts[c]
        BY <3>6, <4>1, NumberTypes DEF Behind
      <4> QED
        BY <3>2, <3>5, <3>6, <4>1, <4>2, NumberTypes DEF Behind
    <3> QED
      BY <2>2, <3>7, <3>8
  <2> QED
    BY <2>1, <2>2
<1> QED
  BY <1>3, <1>4, <1>5

\* A client that is killed, or closes its socket, preserves the invariant.
LEMMA ExitStep ==
  ASSUME IInv, NEW c \in Chans, MinipcCallKilled(c) \/ MinipcClose(c)
  PROVE  IInv'
<1> USE DEF IInv, MinipcCallKilled, MinipcClose, Exit, sockets, history
<1>1. Typed'
  BY DEF Typed
<1>2. Seated' /\ Handling'
  BY DEF Typed, Seated, Handling
<1>3. ASSUME NEW d \in Chans
      PROVE  InOrder(d)' /\ Behind(d)'
  <2>1. InOrder(d)'
    BY StillInOrder
  <2>2. CASE d # c
    BY <2>1, <2>2, StillBehind DEF Typed
  <2>3. CASE d = c
    BY <2>1, <2>3, MinipcAssumption DEF Typed, Behind, Waits
  <2> QED
    BY <2>2, <2>3
<1> QED
  BY <1>1, <1>2, <1>3

\* A poll() that times out preserves the invariant.
LEMMA TimeoutStep ==
  ASSUME IInv, NEW c \in Chans, MinipcCallTimeout(c)
  PROVE  IInv'
<1> USE DEF IInv, MinipcCallTimeout, sockets
<1>1. Typed'
  BY DEF Typed
<1>2. Seated' /\ Handling'
  BY DEF Typed, Seated, Handling
<1>3. ASSUME NEW d \in Chans
      PROVE  InOrder(d)' /\ Behind(d)'
  <2>1. InOrder(d)'
    BY StillInOrder
  <2>2. CASE d # c
    BY <2>1, <2>2, StillBehind DEF Typed
  <2>3. CASE d = c
    <3>1. Latest(answered[c]) \in Nat /\ calls[c] \in Nat
      BY LatestType, MinipcAssumption DEF Typed
    <3> QED
      BY <2>1, <2>3, <3>1 DEF Typed, Behind, Waits, Latest, Channel!Latest
  <2> QED
    BY <2>2, <2>3
<1> QED
  BY <1>1, <1>2, <1>3

\* The recv() of minipc_call() preserves the invariant.
LEMMA ReceiveStep ==
  ASSUME IInv, NEW c \in Chans, MinipcCallReceive(c)
  PROVE  IInv'
<1> USE DEF IInv
<1>1. /\ client[c] = "waiting" /\ client' = [client EXCEPT ![c] = "idle"]
      /\ UNCHANGED <<state, fd, requests, reset, ready, function, calls, executed, timeouts, upsets>>
  BY DEF MinipcCallReceive, server
<1>2. Seated' /\ Handling'
  BY <1>1 DEF Typed, Seated, Handling
<1>3. Waits(c) = 1 /\ Waits(c)' = 0
  BY <1>1 DEF Waits, Typed
<1>4. CASE replies[c] = <<>> /\ state[c] = "closed"
  <2>1. PICK e \in RecvErrors(c) : result' = [result EXCEPT ![c] = e]
    BY <1>4 DEF MinipcCallReceive
  <2>2. e \in {"EPROTO", "EREMOTEIO"} /\ UNCHANGED <<replies, answered>>
    BY <1>4 DEF RecvErrors, MinipcCallReceive
  <2>3. Typed'
    BY <1>1, <2>1, <2>2 DEF Typed
  <2>4. ASSUME NEW d \in Chans
        PROVE  InOrder(d)' /\ Behind(d)'
    <3>1. InOrder(d)'
      BY <1>1, <2>2, StillInOrder
    <3>2. CASE d # c
      BY <1>1, <2>2, <3>1, <3>2, StillBehind DEF Typed
    <3>3. CASE d = c
      BY <1>1, <1>3, <1>4, <3>1, <3>3, StreamTypes DEF Behind, Typed
    <3> QED
      BY <3>2, <3>3
  <2> QED
    BY <1>2, <2>3, <2>4
<1>5. CASE replies[c] # <<>>
  <2> DEFINE n == Head(replies[c]).call
  <2>1. 1 \in 1 .. Len(replies[c]) /\ Head(replies[c]) = replies[c][1]
        /\ Head(replies[c]) \in Reply
    BY <1>5, EmptySeq, HeadTailProperties DEF Typed
  <2>2. n \in 1 .. MaxCalls /\ n \in Nat
        /\ Latest(answered[c]) < n /\ n <= Latest(executed[c])
    BY <2>1, MinipcAssumption DEF Reply, InOrder
  <2>3. /\ answered' = [answered EXCEPT ![c] = Append(@, n)]
        /\ replies' = [replies EXCEPT ![c] = <<>>]
    BY <1>5 DEF MinipcCallReceive, Taken
  <2>4. \E r \in {"EREMOTEIO", "ok", "EPROTO"} : result' = [result EXCEPT ![c] = r]
    BY <1>5 DEF MinipcCallReceive
  <2>5. Append(answered[c], n) \in Seq(1 .. MaxCalls) /\ <<>> \in Seq(Reply)
    BY <2>2, AppendProperties, EmptySeq DEF Typed
  <2>6. Typed'
    BY <1>1, <2>3, <2>4, <2>5 DEF Typed
  <2>7. ASSUME NEW d \in Chans, d # c
        PROVE  InOrder(d)' /\ Behind(d)'
    BY <1>1, <2>3, <2>7, StillInOrder, StillBehind DEF Typed
  <2>8. answered'[c] = Append(answered[c], n) /\ answered[c] \in Seq(1 .. MaxCalls)
        /\ replies'[c] = <<>> /\ Len(replies'[c]) = 0
    BY <2>3, EmptySeq DEF Typed
  <2>9. Latest(answered'[c]) = n
    <3> HIDE DEF n
    <3>1. Latest(Append(answered[c], n)) = n
      BY <2>2, <2>8, LatestOfAppend, Zenon
    <3> QED
      BY <2>8, <3>1
  <2>10. InOrder(c)'
    <3>2. n <= calls[c] /\ \A i \in 1 .. Len(answered[c]) : answered[c][i] <= calls[c]
      BY <2>2, StreamTypes DEF InOrder
    <3>3. \A i \in 1 .. Len(answered'[c]) : answered'[c][i] <= calls[c]
      <4> HIDE DEF n
      <4> QED
        BY <2>2, <2>8, <3>2, StreamTypes, AppendBounded, MinipcAssumption, Zenon
    <3>4. Latest(executed'[c]) = Latest(executed[c])
      BY <1>1
    <3> QED
      BY <1>1, <2>2, <2>8, <2>9, <3>3, <3>4 DEF InOrder
  <2>11. Behind(c)'
    <3>1. client'[c] = "idle"
      BY <1>1 DEF Typed
    <3>2. timeouts[c] + 1 <= calls[c]
          /\ (state[c] # "closed" => calls[c] <= Latest(answered[c]) + timeouts[c] + 1)
      BY <1>1, <1>3 DEF Behind
    <3>3. timeouts[c] + 0 <= calls[c]
          /\ (state[c] # "closed" => calls[c] <= n + timeouts[c] + 0)
      <4> HIDE DEF n
      <4> QED
        BY <2>2, <3>2, NumberTypes
    <3> QED
      BY <1>1, <1>3, <2>9, <3>1, <3>3 DEF Behind
  <2> QED
    BY <1>2, <2>6, <2>7, <2>10, <2>11
<1> QED
  BY <1>4, <1>5 DEF MinipcCallReceive

\* close() frees the places of the channels closed, and no others.
LEMMA CloseKeepsSeats ==
  ASSUME Typed, Seated, NEW closed \in SUBSET Chans, CloseClients(closed),
         \A c \in closed : state[c] # "none", client' = client
  PROVE  /\ state' \in [Chans -> {"none", "backlog", "accepted", "closed", "orphan"}]
         /\ fd' \in [Places -> Chans \cup {"none"}]
         /\ reset' \subseteq Chans
         /\ Seated'
         /\ \A c \in Chans : state[c] = "closed" => state'[c] = "closed"
BY NoChannelAssumption DEF Typed, Seated, CloseClients

\* select() preserves the invariant.
LEMMA SelectStep ==
  ASSUME IInv, Select
  PROVE  IInv'
<1> USE DEF IInv, Select, sockets, history
<1>1. Typed'
  BY DEF Typed
<1>2. Seated' /\ Handling'
  BY DEF Typed, Seated, Handling
<1>3. ASSUME NEW c \in Chans
      PROVE  InOrder(c)' /\ Behind(c)'
  BY StillInOrder, StillBehind
<1> QED
  BY <1>1, <1>2, <1>3

\* The place that mpc_handle_client() handles is taken by an accepted channel.
LEMMA HandledChannel ==
  ASSUME IInv, MpcHandleClient
  PROVE  /\ Min(ready) \in ready /\ Min(ready) \in Places
         /\ fd[Min(ready)] \in Chans /\ state[fd[Min(ready)]] = "accepted"
<1> USE DEF IInv
<1>1. ready \in SUBSET Nat /\ ready # {}
  BY MinipcAssumption DEF MpcHandleClient, Typed, Places, Listen
<1>2. Min(ready) \in ready /\ \A m \in ready : Min(ready) <= m
  BY <1>1, MinInSet
<1>3. Min(ready) # Listen
  <2>1. PICK i \in ready : i # Listen
    BY DEF MpcHandleClient
  <2>2. i < Listen /\ i \in Nat
    BY <2>1, MinipcAssumption DEF Typed, Places, Listen
  <2> QED
    BY <1>1, <1>2, <2>1, <2>2, MinipcAssumption DEF Listen
<1>4. Min(ready) \in Places
  BY <1>2, <1>3 DEF Typed
<1> QED
  BY <1>2, <1>3, <1>4 DEF Handling, Seated, Typed

\* mpc_handle_client() preserves the invariant.
LEMMA HandleClientStep ==
  ASSUME IInv, MpcHandleClient
  PROVE  IInv'
<1> USE DEF IInv
<1>1. PICK pos \in Places, c \in Chans :
        pos = Min(ready) /\ pos \in ready /\ c = fd[pos] /\ state[c] = "accepted"
  BY HandledChannel
<1>2. /\ ready' = ready \ {pos}
      /\ UNCHANGED <<client, function, calls, answered, result, timeouts, upsets>>
  BY <1>1 DEF MpcHandleClient, history
<1>3. CASE requests[c] # <<>>
  <2> DEFINE n == Head(requests[c]).call
  <2>1. 1 \in 1 .. Len(requests[c]) /\ Head(requests[c]) = requests[c][1]
        /\ Head(requests[c]) \in Request
    BY <1>1, <1>3, EmptySeq, HeadTailProperties DEF Typed
  <2>2. n \in 1 .. MaxCalls /\ n \in Nat
        /\ Latest(executed[c]) < n /\ n <= calls[c]
    BY <1>1, <2>1, MinipcAssumption DEF Request, InOrder
  <2>3. /\ executed' = [executed EXCEPT ![c] = Append(@, n)]
        /\ requests' = [requests EXCEPT ![c] = <<>>]
        /\ UNCHANGED reset
    BY <1>1, <1>3 DEF MpcHandleClient, Handled
  <2>4. \/ /\ state' = [state EXCEPT ![c] = "closed"] /\ fd' = [fd EXCEPT ![pos] = "none"]
           /\ UNCHANGED replies
        \/ /\ replies' = [replies EXCEPT ![c] = Append(@, Answer(Head(requests[c])))]
           /\ UNCHANGED <<state, fd>>
    BY <1>1, <1>3 DEF MpcHandleClient
  <2>5. Answer(Head(requests[c])) \in Reply /\ Answer(Head(requests[c])).call = n
    BY <2>1 DEF Answer, Request, Reply, Retval, Functions
  <2> HIDE DEF n
  <2>6. Typed'
    <3>1. Append(executed[c], n) \in Seq(1 .. MaxCalls) /\ <<>> \in Seq(Request)
      BY <1>1, <2>2, AppendProperties, EmptySeq DEF Typed
    <3>2. Append(replies[c], Answer(Head(requests[c]))) \in Seq(Reply)
      BY <1>1, <2>5, AppendProperties DEF Typed
    <3>3. replies' \in [Chans -> Seq(Reply)]
      BY <2>4, <3>2 DEF Typed
    <3>4. /\ state' \in [Chans -> {"none", "backlog", "accepted", "closed", "orphan"}]
          /\ fd' \in [Places -> Chans \cup {"none"}]
      BY <2>4 DEF Typed
    <3> QED
      BY <1>2, <2>3, <3>1, <3>3, <3>4 DEF Typed
  <2>7. Seated' /\ Handling'
    <3>1. CASE /\ state' = [state EXCEPT ![c] = "closed"]
               /\ fd' = [fd EXCEPT ![pos] = "none"]
      <4>1. Seated'
        BY <1>1, <1>2, <3>1, NoChannelAssumption DEF Typed, Seated
      <4>2. Handling'
        BY <1>1, <1>2, <3>1 DEF Typed, Handling
      <4> QED
        BY <4>1, <4>2
    <3>2. CASE UNCHANGED <<state, fd>>
      BY <1>1, <1>2, <3>2 DEF Typed, Seated, Handling
    <3> QED
      BY <2>4, <3>1, <3>2
  <2>8. ASSUME NEW d \in Chans, d # c
        PROVE  InOrder(d)' /\ Behind(d)'
    <3>1. /\ requests'[d] = requests[d] /\ replies'[d] = replies[d]
          /\ executed'[d] = executed[d] /\ state'[d] = state[d]
      BY <2>3, <2>4, <2>8 DEF Typed
    <3> QED
      BY <1>2, <3>1, StillInOrder, StillBehind
  <2>9. /\ executed'[c] = Append(executed[c], n) /\ executed[c] \in Seq(1 .. MaxCalls)
        /\ requests'[c] = <<>> /\ Len(requests'[c]) = 0
    BY <1>1, <2>3, EmptySeq DEF Typed
  <2>10. Latest(executed'[c]) = n
    <3> HIDE DEF n
    <3>1. Latest(Append(executed[c], n)) = n
      BY <2>2, <2>9, LatestOfAppend, Zenon
    <3> QED
      BY <2>9, <3>1
  <2>11. \A i \in 1 .. Len(replies'[c]) :
           Latest(answered[c]) < replies'[c][i].call /\ replies'[c][i].call <= n
    <3>1. \A i \in 1 .. Len(replies[c]) :
            Latest(answered[c]) < replies[c][i].call /\ replies[c][i].call <= n
      BY <1>1, <2>2, StreamTypes DEF InOrder
    <3>2. CASE UNCHANGED replies
      BY <3>1, <3>2
    <3>3. CASE replies' = [replies EXCEPT ![c] = Append(@, Answer(Head(requests[c])))]
      <4>1. /\ Len(replies'[c]) = Len(replies[c]) + 1
            /\ \A i \in 1 .. Len(replies[c]) : replies'[c][i] = replies[c][i]
            /\ replies'[c][Len(replies[c]) + 1] = Answer(Head(requests[c]))
        BY <1>1, <2>5, <3>3, AppendProperties DEF Typed
      <4>2. Latest(answered[c]) < n
        BY <1>1, <2>2, StreamTypes DEF InOrder
      <4>3. ASSUME NEW i \in 1 .. Len(replies'[c])
            PROVE  Latest(answered[c]) < replies'[c][i].call /\ replies'[c][i].call <= n
        <5>1. CASE i = Len(replies[c]) + 1
          BY <2>2, <2>5, <4>1, <4>2, <5>1
        <5>2. CASE i # Len(replies[c]) + 1
          <6>1. i \in 1 .. Len(replies[c])
            BY <4>1, <5>2, StreamTypes
          <6> QED
            BY <3>1, <4>1, <6>1
        <5> QED
          BY <5>1, <5>2
      <4> QED
        BY <4>3
    <3> QED
      BY <2>4, <3>2, <3>3
  <2>12. InOrder(c)'
    <3>2. \A i \in 1 .. Len(executed[c]) : executed[c][i] <= calls[c]
      BY <1>1 DEF InOrder
    <3>3. \A i \in 1 .. Len(executed'[c]) : executed'[c][i] <= calls[c]
      BY <2>2, <2>9, <3>2, StreamTypes, AppendBounded, MinipcAssumption, Zenon
    <3>4. Latest(answered'[c]) = Latest(answered[c]) /\ Latest(answered[c]) <= n
      BY <1>1, <1>2, <2>2, StreamTypes DEF InOrder
    <3>5. /\ Latest(executed'[c]) <= calls[c] /\ Latest(answered'[c]) <= Latest(executed'[c])
          /\ \A i \in 1 .. Len(replies'[c]) :
               /\ Latest(answered'[c]) < replies'[c][i].call
               /\ replies'[c][i].call <= Latest(executed'[c])
      BY <2>2, <2>10, <2>11, <3>4
    <3>6. calls'[c] = calls[c] /\ answered'[c] = answered[c]
          /\ \A i \in 1 .. Len(answered[c]) : answered[c][i] <= calls[c]
      BY <1>2 DEF InOrder
    <3>7. 1 .. Len(requests'[c]) = {}
      BY <2>9
    <3>8. /\ \A i \in 1 .. Len(executed'[c]) : executed'[c][i] <= calls'[c]
          /\ \A i \in 1 .. Len(answered'[c]) : answered'[c][i] <= calls'[c]
          /\ Latest(executed'[c]) <= calls'[c]
      BY <3>3, <3>5, <3>6
    <3> QED
      BY <3>5, <3>7, <3>8, Zenon DEF InOrder
  <2>13. Behind(c)'
    BY <1>1, <1>2, <2>4, StillBehind
  <2> QED
    BY <2>6, <2>7, <2>8, <2>12, <2>13
<1>4. CASE requests[c] = <<>>
  <2>1. CloseClients({c}) /\ UNCHANGED <<requests, replies, executed>>
    BY <1>1, <1>4 DEF MpcHandleClient
  <2>2. /\ state' \in [Chans -> {"none", "backlog", "accepted", "closed", "orphan"}]
        /\ fd' \in [Places -> Chans \cup {"none"}] /\ reset' \subseteq Chans /\ Seated'
        /\ \A d \in Chans : state[d] = "closed" => state'[d] = "closed"
    BY <1>1, <1>2, <2>1, CloseKeepsSeats
  <2>3. Typed'
    BY <1>2, <2>1, <2>2 DEF Typed
  <2>4. Handling'
    BY <1>1, <1>2, <2>1 DEF CloseClients, Handling, Seated, Typed
  <2>5. ASSUME NEW d \in Chans
        PROVE  InOrder(d)' /\ Behind(d)'
    BY <1>2, <2>1, <2>2, StillInOrder, StillBehind
  <2> QED
    BY <2>2, <2>3, <2>4, <2>5
<1> QED
  BY <1>3, <1>4

\* mpc_handle_connection() preserves the invariant.
LEMMA HandleConnectionStep ==
  ASSUME IInv, MpcHandleConnection
  PROVE  IInv'
<1> USE DEF IInv
<1>1. PICK c \in Chans :
        /\ state[c] = "backlog"
        /\ IF FreePlaces = {} THEN Refused(c)
           ELSE /\ state' = [state EXCEPT ![c] = "accepted"]
                /\ fd' = [fd EXCEPT ![Min(FreePlaces)] = c]
                /\ UNCHANGED reset
  BY DEF MpcHandleConnection
<1>2. /\ ready' = {}
      /\ UNCHANGED <<client, requests, replies, function, calls, executed, answered, result,
                     timeouts, upsets>>
  BY DEF MpcHandleConnection, history
<1>3. /\ state' \in [Chans -> {"none", "backlog", "accepted", "closed", "orphan"}]
      /\ fd' \in [Places -> Chans \cup {"none"}] /\ reset' \subseteq Chans /\ Seated'
      /\ \A d \in Chans : state[d] = "closed" => state'[d] = "closed"
  <2>1. CASE FreePlaces = {}
    BY <1>1, <1>2, <2>1, CloseKeepsSeats DEF Refused
  <2>2. CASE FreePlaces # {}
    <3> DEFINE pos == Min(FreePlaces)
    <3>1. pos \in Places /\ fd[pos] = "none"
      <4>1. FreePlaces \in SUBSET Nat
        BY DEF FreePlaces, Places
      <4>2. pos \in FreePlaces
        BY <2>2, <4>1, MinInSet
      <4> QED
        BY <4>2 DEF FreePlaces
    <3>2. /\ state' = [state EXCEPT ![c] = "accepted"] /\ fd' = [fd EXCEPT ![pos] = c]
          /\ UNCHANGED reset
      BY <1>1, <2>2
    <3> HIDE DEF pos
    <3> QED
      BY <1>1, <1>2, <3>1, <3>2, NoChannelAssumption DEF Typed, Seated
  <2> QED
    BY <2>1, <2>2
<1>4. Typed' /\ Handling'
  BY <1>2, <1>3 DEF Typed, Handling
<1>5. ASSUME NEW d \in Chans
      PROVE  InOrder(d)' /\ Behind(d)'
  BY <1>2, <1>3, StillInOrder, StillBehind
<1> QED
  BY <1>3, <1>4, <1>5

\* ptpd_init_exports() again, and a restart, preserve the invariant.
LEMMA UpsetStep ==
  ASSUME IInv, PtpdInitExports \/ Restart
  PROVE  IInv'
<1> USE DEF IInv
<1>1. /\ upsets' \in 0 .. MaxUpsets /\ ready' = {}
      /\ UNCHANGED <<client, requests, replies, function, calls, executed, answered, result,
                     timeouts>>
  BY MinipcAssumption DEF PtpdInitExports, Restart, Upset, Typed, history
<1>2. /\ state' \in [Chans -> {"none", "backlog", "accepted", "closed", "orphan"}]
      /\ fd' \in [Places -> Chans \cup {"none"}] /\ reset' \subseteq Chans /\ Seated'
      /\ \A d \in Chans : state[d] = "closed" => state'[d] = "closed"
  <2>1. CASE PtpdInitExports
    BY <1>1, <2>1, NoChannelAssumption DEF PtpdInitExports, Typed, Seated
  <2>2. CASE Restart
    BY <1>1, <2>2, CloseKeepsSeats DEF Restart
  <2> QED
    BY <2>1, <2>2
<1>3. Typed' /\ Handling'
  BY <1>1, <1>2 DEF Typed, Handling
<1>4. ASSUME NEW d \in Chans
      PROVE  InOrder(d)' /\ Behind(d)'
  BY <1>1, <1>2, StillInOrder, StillBehind
<1> QED
  BY <1>2, <1>3, <1>4

\* Every step of the specification preserves the invariant.
LEMMA NextStep == IInv /\ [Next]_vars => IInv'
<1> SUFFICES ASSUME IInv, [Next]_vars PROVE IInv'
  OBVIOUS
<1>1. CASE Select \/ MpcHandleClient \/ MpcHandleConnection
  BY <1>1, SelectStep, HandleClientStep, HandleConnectionStep
<1>2. CASE PtpdInitExports \/ Restart
  BY <1>2, UpsetStep
<1>3. ASSUME NEW c \in Chans,
             \/ MinipcClientCreate(c) \/ MinipcCallKilled(c) \/ MinipcCallTimeout(c)
             \/ MinipcCallReceive(c) \/ MinipcClose(c)
             \/ \E f \in Functions : MinipcCallSend(c, f)
      PROVE  IInv'
  BY <1>3, CreateStep, ExitStep, TimeoutStep, ReceiveStep, CallSendStep
<1>4. CASE UNCHANGED vars
  <2> USE <1>4 DEF vars, history, IInv
  <2>1. Typed' /\ Seated' /\ Handling'
    BY DEF Typed, Seated, Handling
  <2>2. ASSUME NEW c \in Chans
        PROVE  InOrder(c)' /\ Behind(c)'
    BY StillInOrder, StillBehind
  <2> QED
    BY <2>1, <2>2
<1> QED
  BY <1>1, <1>2, <1>3, <1>4 DEF Next, MinipcServerAction

\* IInv holds of every behaviour of clients and server.
LEMMA Invariance == Spec => []IInv
<1>1. Init => IInv
  BY InitInvariant
<1>2. IInv /\ [Next]_vars => IInv'
  BY NextStep
<1> QED
  BY <1>1, <1>2, PTL DEF Spec

-----------------------------------------------------------------------------
(* The theorems.                                                           *)

\* Fields hold values of their types, and a channel has one place at the server
\* exactly while it is accepted: mpc_handle_connection() takes free places only,
\* and all that close a socket free its place.
THEOREM TypeCorrect == Spec => []TypeOK
<1>1. ASSUME IInv PROVE TypeOK
  <2> USE <1>1 DEF IInv
  <2>1. ASSUME NEW c \in Chans
        PROVE  Cardinality({i \in Places : fd[i] = c}) = IF state[c] = "accepted" THEN 1 ELSE 0
    <3>1. CASE state[c] = "accepted"
      <4>1. PICK pos \in Places : fd[pos] = c
        BY <3>1 DEF Seated
      <4>2. {i \in Places : fd[i] = c} = {pos}
        BY <4>1, NoChannelAssumption DEF Seated
      <4> QED
        BY <3>1, <4>2, FS_Singleton
    <3>2. CASE state[c] # "accepted"
      <4>1. {i \in Places : fd[i] = c} = {}
        BY <3>2, NoChannelAssumption DEF Seated
      <4> QED
        BY <3>2, <4>1, FS_EmptySet
    <3> QED
      BY <3>1, <3>2
  <2>2. ASSUME NEW c \in Chans
        PROVE  executed[c] \in Seq(1 .. calls[c]) /\ answered[c] \in Seq(1 .. calls[c])
    <3>1. \A i \in 1 .. Len(executed[c]) : executed[c][i] \in 1 .. calls[c]
      <4>1. \A i \in 1 .. Len(executed[c]) : executed[c][i] \in 1 .. MaxCalls
        BY ElementOfSeq DEF Typed
      <4> QED
        BY <4>1, StreamTypes, MinipcAssumption DEF InOrder
    <3>2. \A i \in 1 .. Len(answered[c]) : answered[c][i] \in 1 .. calls[c]
      <4>1. \A i \in 1 .. Len(answered[c]) : answered[c][i] \in 1 .. MaxCalls
        BY ElementOfSeq DEF Typed
      <4> QED
        BY <4>1, StreamTypes, MinipcAssumption DEF InOrder
    <3>3. /\ executed[c] \in [1 .. Len(executed[c]) -> 1 .. MaxCalls]
          /\ answered[c] \in [1 .. Len(answered[c]) -> 1 .. MaxCalls]
      BY LenProperties DEF Typed
    <3>4. /\ executed[c] \in [1 .. Len(executed[c]) -> 1 .. calls[c]]
          /\ answered[c] \in [1 .. Len(answered[c]) -> 1 .. calls[c]]
      BY <3>1, <3>2, <3>3
    <3> QED
      BY <3>4, StreamTypes, SeqDef
  <2>3. ASSUME NEW c \in Chans
        PROVE  timeouts[c] \in 0 .. calls[c]
    BY StreamTypes DEF Behind, Waits
  <2> QED
    BY <2>1, <2>2, <2>3 DEF Typed, TypeOK
<1> QED
  BY <1>1, Invariance, PTL

\* A channel falls behind by no more calls than timed out: recv() takes all that
\* is in the socket, so an answer is left for a later call only by a timeout
\* (minipc_call()).
THEOREM LagIsBounded == Spec => []LagBounded
<1>1. ASSUME IInv PROVE LagBounded
  <2>1. ASSUME NEW c \in Chans, client[c] = "idle", state[c] # "closed"
        PROVE  calls[c] - (IF answered[c] = <<>> THEN 0 ELSE Last(answered[c])) <= timeouts[c]
    <3>1. calls[c] <= Latest(answered[c]) + timeouts[c] + 0
      BY <1>1, <2>1 DEF IInv, Behind, Waits
    <3>2. Latest(answered[c]) = IF answered[c] = <<>> THEN 0 ELSE Last(answered[c])
      BY DEF Latest, Channel!Latest, Last
    <3> QED
      BY <1>1, <3>1, <3>2, StreamTypes DEF IInv
  <2> QED
    BY <2>1 DEF LagBounded
<1> QED
  BY <1>1, Invariance, PTL

\* However requests and replies merge in the sockets, whatever times out, and
\* whichever side ends, minipc_call() and mpc_handle_client() keep the promise of
\* Rpc: calls are executed in order, each at most once, and an answer that is
\* taken is that of a call executed, and later than those taken before.
THEOREM RefinesRpc == Spec => RpcSpec
<1>1. Init => Channel!Init
  BY DEF Init, Channel!Init
<1>2. ASSUME IInv, [Next]_vars
      PROVE  [Channel!Next]_<<calls, executed, answered>>
  <2> USE <1>2 DEF IInv
  <2>1. ASSUME NEW c \in Chans, NEW f \in Functions, MinipcCallSend(c, f)
        PROVE  Channel!Next
    BY <2>1 DEF MinipcCallSend, server, history, Channel!Ask, Channel!Next
  <2>2. ASSUME NEW c \in Chans, MinipcCallReceive(c)
        PROVE  [Channel!Next]_<<calls, executed, answered>>
    <3>1. UNCHANGED <<calls, executed>>
      BY <2>2 DEF MinipcCallReceive, server
    <3>2. CASE replies[c] # <<>>
      <4>1. answered' = [answered EXCEPT ![c] = Append(@, Head(replies[c]).call)]
        BY <2>2, <3>2 DEF MinipcCallReceive
      <4>2. Head(replies[c]).call \in Latest(answered[c]) + 1 .. Latest(executed[c])
        <5>1. 1 \in 1 .. Len(replies[c]) /\ Head(replies[c]) = replies[c][1]
          BY <3>2, EmptySeq DEF Typed
        <5> QED
          BY <5>1, StreamTypes DEF InOrder
      <4>3. Channel!Answer(c)
        BY <3>1, <4>1, <4>2 DEF Channel!Answer, Latest
      <4> QED
        BY <4>3 DEF Channel!Next
    <3>3. CASE replies[c] = <<>>
      BY <2>2, <3>1, <3>3 DEF MinipcCallReceive
    <3> QED
      BY <3>2, <3>3
  <2>3. CASE MpcHandleClient
    <3>1. UNCHANGED <<calls, answered>>
      BY <2>3 DEF MpcHandleClient, history
    <3>2. PICK c \in Chans : c = fd[Min(ready)]
      BY <2>3, HandledChannel
    <3>3. CASE requests[c] # <<>>
      <4>1. executed' = [executed EXCEPT ![c] = Append(@, Head(requests[c]).call)]
        BY <2>3, <3>2, <3>3 DEF MpcHandleClient
      <4>2. Head(requests[c]).call \in Latest(executed[c]) + 1 .. calls[c]
        <5>1. 1 \in 1 .. Len(requests[c]) /\ Head(requests[c]) = requests[c][1]
          BY <3>3, EmptySeq DEF Typed
        <5> QED
          BY <5>1, StreamTypes DEF InOrder
      <4>3. Channel!Execute(c)
        BY <3>1, <4>1, <4>2 DEF Channel!Execute, Latest
      <4> QED
        BY <4>3 DEF Channel!Next
    <3>4. CASE requests[c] = <<>>
      BY <2>3, <3>1, <3>2, <3>4 DEF MpcHandleClient
    <3> QED
      BY <3>3, <3>4
  <2>4. CASE Select \/ MpcHandleConnection \/ PtpdInitExports \/ Restart
    BY <2>4 DEF Select, MpcHandleConnection, PtpdInitExports, Restart, history
  <2>5. ASSUME NEW c \in Chans,
               MinipcClientCreate(c) \/ MinipcCallKilled(c) \/ MinipcCallTimeout(c) \/ MinipcClose(c)
        PROVE  UNCHANGED <<calls, executed, answered>>
    BY <2>5 DEF MinipcClientCreate, MinipcCallKilled, MinipcCallTimeout, MinipcClose, history
  <2>6. CASE UNCHANGED vars
    BY <2>6 DEF vars, history
  <2> QED
    BY <2>1, <2>2, <2>3, <2>4, <2>5, <2>6 DEF Next, MinipcServerAction
<1> QED
  BY <1>1, <1>2, Invariance, PTL DEF Spec, RpcSpec, Channel!Spec

=============================================================================
