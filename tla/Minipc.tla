------------------------------- MODULE Minipc -------------------------------
(***************************************************************************)
(* Remote calls of the functions that ptpd exports (libminipc,             *)
(* PTPWRd/ptpd_exports.c).                                                 *)
(*                                                                         *)
(* A channel is a stream socket of a client; a program that connects again *)
(* has another channel.  A stream keeps no boundaries: a recv() takes all  *)
(* that is there.  Whoever calls sends, polls with a timeout and receives; *)
(* the daemon serves channels between two rounds of its protocol engine.   *)
(***************************************************************************)
EXTENDS Naturals, SequencesExt, FiniteSetsExt

CONSTANTS
  Chans,             \* the channels that clients open
  MINIPC_MAX_CLIENTS,
  MaxCalls,          \* bound: calls on a channel; their packets fit a recv()
  MaxUpsets          \* bound: how often exports are initialised again, or ptpd
                     \* is started again

ASSUME MinipcAssumption ==
  MINIPC_MAX_CLIENTS \in Nat \ {0} /\ MaxCalls \in Nat /\ MaxUpsets \in Nat

\* A place without a channel: file descriptor -1 is no socket.
ASSUME NoChannelAssumption == "none" \notin Chans

VARIABLES
  client,    \* "new", "idle", "waiting", "closed" or "killed", of each channel
  state,     \* of each channel at the server: "none", "backlog", "accepted",
             \* "closed" or, at a server that is not served any more, "orphan"
  fd,        \* the channel in each place, or "none"
  requests,  \* what the server has not received yet
  replies,   \* what the client has not received yet
  reset,     \* the channels closed by the server with a request in them
  ready,     \* the places that select() found, or Listen, still to be handled
  function,  \* what the client calls, or called last
  calls,     \* the calls so far
  executed,  \* the calls executed, by their numbers
  answered,  \* the calls whose answers were taken
  result,    \* of the last call: "ok" or an error
  timeouts,  \* how many calls timed out
  upsets

vars == <<client, state, fd, requests, replies, reset, ready, function, calls, executed,
          answered, result, timeouts, upsets>>
sockets == <<state, fd, requests, replies, reset>>
server == <<state, fd, reset, ready, executed, upsets>>
history == <<answered, result, timeouts>>

Places == 1 .. MINIPC_MAX_CLIENTS
Listen == MINIPC_MAX_CLIENTS + 1
Functions == {"get_sync_state", "cmd", "absent"}

\* The type of the return value, as client and server declare it.
Retval(f) == CASE f = "get_sync_state" -> "struct" [] f = "cmd" -> "int" [] f = "absent" -> "int"

Request == [call : 1 .. MaxCalls, function : Functions]
Reply == [call : 1 .. MaxCalls, type : {"struct", "int", "error"}]

TypeOK ==
  /\ client \in [Chans -> {"new", "idle", "waiting", "closed", "killed"}]
  /\ state \in [Chans -> {"none", "backlog", "accepted", "closed", "orphan"}]
  /\ \A c \in Chans : requests[c] \in Seq(Request) /\ replies[c] \in Seq(Reply)
  /\ \A c \in Chans :
       Cardinality({i \in Places : fd[i] = c}) = IF state[c] = "accepted" THEN 1 ELSE 0
  /\ reset \subseteq Chans /\ ready \subseteq Places \cup {Listen}
  /\ \A c \in Chans :
       /\ function[c] \in Functions /\ calls[c] \in 0 .. MaxCalls
       /\ executed[c] \in Seq(1 .. calls[c]) /\ answered[c] \in Seq(1 .. calls[c])
       /\ timeouts[c] \in 0 .. calls[c]
       /\ result[c] \in {"ok", "ETIMEDOUT", "EPROTO", "EREMOTEIO"}
  /\ upsets \in 0 .. MaxUpsets

Init ==
  /\ client = [c \in Chans |-> "new"] /\ state = [c \in Chans |-> "none"]
  /\ fd = [i \in Places |-> "none"]
  /\ requests = [c \in Chans |-> <<>>] /\ replies = requests
  /\ reset = {} /\ ready = {} /\ upsets = 0
  /\ function = [c \in Chans |-> "cmd"] /\ result = [c \in Chans |-> "ok"]
  /\ calls = [c \in Chans |-> 0] /\ timeouts = calls
  /\ executed = requests /\ answered = requests

-----------------------------------------------------------------------------
\* The clients.

\* minipc_client_create().
MinipcClientCreate(c) ==
  /\ client[c] = "new"
  /\ client' = [client EXCEPT ![c] = "idle"]
  /\ state' = [state EXCEPT ![c] = "backlog"]
  /\ UNCHANGED <<fd, requests, replies, reset, ready, function, calls, executed, history, upsets>>

\* The end of a client, which closes its sockets.
Exit(c, how) == client' = [client EXCEPT ![c] = how]

\* minipc_call() up to the poll().
MinipcCallSend(c, f) ==
  /\ client[c] = "idle" /\ state[c] # "closed" /\ calls[c] < MaxCalls
  /\ client' = [client EXCEPT ![c] = "waiting"]
  /\ function' = [function EXCEPT ![c] = f]
  /\ calls' = [calls EXCEPT ![c] = @ + 1]
  /\ requests' = [requests EXCEPT ![c] = Append(@, [call |-> calls[c] + 1, function |-> f])]
  /\ UNCHANGED <<replies, server, history>>

\* The send() of a client to a socket that the server has closed: SIGPIPE.
MinipcCallKilled(c) ==
  /\ client[c] = "idle" /\ state[c] = "closed"
  /\ Exit(c, "killed")
  /\ UNCHANGED <<sockets, ready, function, calls, executed, history, upsets>>

\* The poll() ends with nothing to receive.
MinipcCallTimeout(c) ==
  /\ client[c] = "waiting" /\ replies[c] = <<>> /\ state[c] # "closed"
  /\ client' = [client EXCEPT ![c] = "idle"]
  /\ result' = [result EXCEPT ![c] = "ETIMEDOUT"]
  /\ timeouts' = [timeouts EXCEPT ![c] = @ + 1]
  /\ UNCHANGED <<sockets, ready, function, calls, executed, answered, upsets>>

\* Mutant: an error is left in the socket for the next call.
TakenUnlessError(c) == IF Head(replies[c]).type = "error" THEN replies[c] ELSE <<>>

\* What is left in the socket by recv().
Taken(c) == <<>>

\* The errors of a recv() of nothing: of a socket reset by the server it returns
\* -1, which is not below the unsigned size of a short reply, and the type that
\* is then looked at is what happens to be on the stack.
RecvErrors(c) == IF c \in reset THEN {"EPROTO", "EREMOTEIO"} ELSE {"EPROTO"}

\* minipc_call() after the poll().
MinipcCallReceive(c) ==
  /\ client[c] = "waiting"
  /\ client' = [client EXCEPT ![c] = "idle"]
  /\ \/ /\ replies[c] = <<>> /\ state[c] = "closed"
        /\ \E e \in RecvErrors(c) : result' = [result EXCEPT ![c] = e]
        /\ UNCHANGED <<replies, answered>>
     \/ /\ replies[c] # <<>>
        /\ LET p_in == Head(replies[c])
           IN  result' = [result EXCEPT ![c] =
                 CASE p_in.type = "error"             -> "EREMOTEIO"
                   [] p_in.type = Retval(function[c]) -> "ok"
                   [] p_in.type \notin {"error", Retval(function[c])} -> "EPROTO"]
        /\ answered' = [answered EXCEPT ![c] = Append(@, Head(replies[c]).call)]
        /\ replies' = [replies EXCEPT ![c] = Taken(c)]
  /\ UNCHANGED <<requests, server, function, calls, timeouts>>

\* minipc_close(), or the client ends.
MinipcClose(c) ==
  /\ client[c] \in {"idle", "waiting"}
  /\ Exit(c, "closed")
  /\ UNCHANGED <<sockets, ready, function, calls, executed, history, upsets>>

Gone(c) == client[c] \in {"closed", "killed"}

-----------------------------------------------------------------------------
\* The server: minipc_server_action(), in its steps.

\* close() of the server's end of a channel.
CloseClients(closed) ==
  /\ state' = [c \in Chans |-> IF c \in closed THEN "closed" ELSE state[c]]
  /\ fd' = [i \in Places |-> IF fd[i] \in closed THEN "none" ELSE fd[i]]
  /\ reset' = reset \cup {c \in closed : requests[c] # <<>>}

Readable(c) == state[c] = "accepted" /\ (requests[c] # <<>> \/ Gone(c))

\* select(), which returns at once or after a timeout of ten milliseconds.
Select ==
  /\ ready = {}
  /\ ready' = {i \in Places : fd[i] # "none" /\ Readable(fd[i])} \cup
              IF \E c \in Chans : state[c] = "backlog" THEN {Listen} ELSE {}
  /\ ready' # {}
  /\ UNCHANGED <<client, sockets, function, calls, executed, history, upsets>>

\* Mutant: the request that was answered is left in the socket.
HandledLeft(c) == requests[c]

\* Of several requests in a socket the first is handled, the others are lost.
Handled(c) == <<>>

\* The packet sent in answer to a request.
Answer(request) ==
  [call |-> request.call,
   type |-> IF request.function = "absent" THEN "error" ELSE Retval(request.function)]

\* mpc_handle_client(), in the order of the places.
MpcHandleClient ==
  /\ ready \ {Listen} # {}
  /\ LET pos == Min(ready)
         c == fd[pos]
     IN  /\ ready' = ready \ {pos}
         /\ \/ /\ requests[c] # <<>>
               /\ executed' = [executed EXCEPT ![c] = Append(@, Head(requests[c]).call)]
               /\ requests' = [requests EXCEPT ![c] = Handled(c)]
               /\ IF Gone(c)
                  THEN /\ state' = [state EXCEPT ![c] = "closed"]
                       /\ fd' = [fd EXCEPT ![pos] = "none"]
                       /\ UNCHANGED replies
                  ELSE /\ replies' = [replies EXCEPT ![c] = Append(@, Answer(Head(requests[c])))]
                       /\ UNCHANGED <<state, fd>>
               /\ UNCHANGED reset
            \/ /\ requests[c] = <<>>
               /\ CloseClients({c})
               /\ UNCHANGED <<requests, replies, executed>>
  /\ UNCHANGED <<client, function, calls, history, upsets>>

\* Mutant: a place is not looked at before it is taken.
AnyPlaces == Places

FreePlaces == {i \in Places : fd[i] = "none"}

\* Mutant: what comes when all places are taken is left where it is.
RefusedLater(c) == UNCHANGED <<state, reset, fd>>

\* Too many clients: the new one is closed.
Refused(c) == CloseClients({c})

\* mpc_handle_connection(), after the clients.
MpcHandleConnection ==
  /\ ready = {Listen} /\ ready' = {}
  /\ \E c \in Chans :
       /\ state[c] = "backlog"
       /\ IF FreePlaces = {} THEN Refused(c)
          ELSE /\ state' = [state EXCEPT ![c] = "accepted"]
               /\ fd' = [fd EXCEPT ![Min(FreePlaces)] = c]
               /\ UNCHANGED reset
  /\ UNCHANGED <<client, requests, replies, function, calls, executed, history, upsets>>

Upset == ready = {} /\ upsets < MaxUpsets /\ upsets' = upsets + 1

\* ptpd_init_exports() again, for a slave port that is initialised: a new server
\* takes the name, and the old one, still open, is not served any more.
PtpdInitExports ==
  /\ Upset
  /\ state' = [c \in Chans |-> IF state[c] \in {"accepted", "backlog"} THEN "orphan" ELSE state[c]]
  /\ fd' = [i \in Places |-> "none"]
  /\ UNCHANGED <<client, requests, replies, reset, ready, function, calls, executed, history>>

\* The daemon ends and is started again.
Restart ==
  /\ Upset
  /\ CloseClients({c \in Chans : state[c] \in {"backlog", "accepted", "orphan"}})
  /\ UNCHANGED <<client, requests, replies, ready, function, calls, executed, history>>

MinipcServerAction == Select \/ MpcHandleClient \/ MpcHandleConnection

Next ==
  \/ MinipcServerAction \/ PtpdInitExports \/ Restart
  \/ \E c \in Chans :
       \/ MinipcClientCreate(c) \/ MinipcCallKilled(c) \/ MinipcCallTimeout(c)
       \/ MinipcCallReceive(c) \/ MinipcClose(c)
       \/ \E f \in Functions : MinipcCallSend(c, f)

Spec == Init /\ [][Next]_vars

\* ptpd_handle_wripc() is called in every round of the protocol engine.
FairSpec == Spec /\ WF_vars(MinipcServerAction)

-----------------------------------------------------------------------------
Channel == INSTANCE Rpc WITH asked <- calls

\* However requests and replies merge in the sockets, whatever times out, and
\* whichever side ends: each request is executed at most once and in order, and
\* nothing is returned twice or that was not executed (minipc_call() against
\* mpc_handle_client()).
RpcSpec == Channel!Spec

\* A call that returns with an answer has that to itself, or to one that is
\* earlier by no more than the number of calls that timed out: a late answer stays
\* in the socket for the next call (minipc-client.c:132-148), but the channel
\* falls no further behind.
LagBounded ==
  \A c \in Chans :
    client[c] = "idle" /\ result[c] # "ETIMEDOUT" /\ state[c] # "closed"
      => calls[c] - (IF answered[c] = <<>> THEN 0 ELSE Last(answered[c])) <= timeouts[c]

\* What the server has to look at: a client that waits to be accepted, sent a
\* request or is gone.
Pending(c) == state[c] = "backlog" \/ Readable(c)

\* Nobody waits for ever: all is looked at, unless the server is given up
\* (minipc_server_action(), with a place for every client or not).
Served == \A c \in Chans : Pending(c) ~> ~Pending(c)

=============================================================================
