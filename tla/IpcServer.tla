------------------------------ MODULE IpcServer ------------------------------
(***************************************************************************)
(* agent/ipc_server.c and agent/ipc_client.c: the control socket of the    *)
(* agent.  The loop polls the server; a poll accepts what is in the        *)
(* backlog, then reads from each client slot and answers the complete      *)
(* lines in its buffer.  Clients run concurrently: cpe_ctl sends one line  *)
(* and waits for one, any other client may send pieces of lines, send      *)
(* ahead, stay silent, not read, or vanish.                                *)
(*                                                                         *)
(* A stream is a sequence of units; a unit is a piece of text or, with an  *)
(* operation in it, the newline that ends a request.  An AF_UNIX send of   *)
(* at most 8 KiB is taken whole or refused.                                *)
(***************************************************************************)
EXTENDS Naturals, Sequences, FiniteSets

CONSTANTS
  Clients,      \* connections, each made once
  Ctl,          \* those made by cpe_ipc_client_request
  Ops,          \* operations requested
  SlotsMax,     \* CPE_IPC_CLIENTS_MAX (8)
  Backlog,      \* connections the listening socket queues (4)
  BufMax,       \* units rbuf holds (CPE_IPC_LINE_MAX - 1)
  ReplyRoom,    \* replies a client's socket holds unread
  MaxUnits,     \* bound on the units each client sends
  MaxStarts     \* bound on the starts of the agent

NoClient == "none"

ASSUME IpcAssumption ==
  /\ IsFiniteSet(Clients) /\ Ctl \subseteq Clients /\ NoClient \notin Clients
  /\ "text" \notin Ops
  /\ SlotsMax \in Nat \ {0} /\ Backlog \in Nat \ {0} /\ ReplyRoom \in Nat \ {0}
  /\ BufMax \in Nat /\ BufMax >= 2
  /\ MaxUnits \in [Clients -> Nat]
  /\ MaxStarts \in Nat

Slots == 0..(SlotsMax - 1)

VARIABLES
  starts,   \* how often the agent was started
  up,       \* the agent is running
  path,     \* the socket file: "absent", "stale" or "live"
  queue,    \* the listening socket's backlog
  slot,     \* clients[]: slot -> connection
  rbuf,     \* rbuf[] and rlen[]: slot -> units read and not yet consumed
  pc, cur,  \* where cpe_ipc_server_poll is, and at which slot
  conn,     \* the state of each connection, seen from the client
  wire,     \* units under way to the server
  reply,    \* replies under way to the client
  sent,     \* history: units the client sent
  eaten,    \* history: units of its lines that the server consumed
  got,      \* history: replies the client read
  why       \* history: why the server closed the connection

agentVars  == <<starts, up, path>>
pollVars   == <<pc, cur>>
clientVars == <<conn, wire, reply, sent, got, why>>
vars == <<agentVars, queue, slot, rbuf, pollVars, conn, wire, reply,
          sent, eaten, got, why>>

(* No agent runs; an earlier one may have crashed. *)
Init ==
  /\ starts = 0 /\ up = FALSE /\ path \in {"absent", "stale"}
  /\ queue = <<>>
  /\ slot = [i \in Slots |-> NoClient]
  /\ rbuf = [i \in Slots |-> <<>>]
  /\ pc = "idle" /\ cur = 0
  /\ conn = [c \in Clients |-> "new"]
  /\ wire = [c \in Clients |-> <<>>]
  /\ reply = [c \in Clients |-> <<>>]
  /\ sent = [c \in Clients |-> <<>>]
  /\ eaten = [c \in Clients |-> <<>>]
  /\ got = [c \in Clients |-> <<>>]
  /\ why = [c \in Clients |-> "none"]

(***************************************************************************)
(* The agent's life.  server_create unlinks whatever is at the path before *)
(* it binds; server_destroy unlinks it again; a crash leaves it behind.    *)
(***************************************************************************)
BindNoUnlink == path' = IF path = "absent" THEN "live" ELSE path   \* mutant
Bind == path' = "live"

Start ==
  /\ ~up
  /\ starts < MaxStarts
  /\ starts' = starts + 1
  /\ up' = TRUE
  /\ Bind
  /\ slot' = [i \in Slots |-> NoClient]
  /\ rbuf' = [i \in Slots |-> <<>>]
  /\ pc' = "idle" /\ cur' = 0
  /\ UNCHANGED <<queue, clientVars, eaten>>

(* The connections end with the process that held them. *)
Down ==
  LET held == {c \in Clients : conn[c] = "open"}
  IN  /\ up
      /\ up' = FALSE
      /\ queue' = <<>>
      /\ conn' = [c \in Clients |-> IF c \in held THEN "shut" ELSE conn[c]]
      /\ why' = [c \in Clients |-> IF c \in held THEN "down" ELSE why[c]]
      /\ wire' = [c \in Clients |-> <<>>]
      /\ UNCHANGED <<starts, slot, rbuf, pc, cur, reply, sent, eaten, got>>

Stop  == pc = "idle" /\ Down /\ path' = "absent"
Crash == Down /\ path' = "stale"

(***************************************************************************)
(* The clients.  A connection is "new", "open", "shut" by the server, or   *)
(* "left" by the client; a connect that fails goes straight to "left".     *)
(***************************************************************************)
Connect(c) ==
  /\ conn[c] = "new"
  /\ \/ /\ path = "live" /\ Len(queue) < Backlog
        /\ conn' = [conn EXCEPT ![c] = "open"]
        /\ queue' = Append(queue, c)
        /\ UNCHANGED why
     \/ /\ path # "live"
        /\ conn' = [conn EXCEPT ![c] = "left"]
        /\ why' = [why EXCEPT ![c] = "down"]
        /\ UNCHANGED queue
  /\ UNCHANGED <<agentVars, slot, rbuf, pollVars, wire, reply, sent, eaten, got>>

Unit(c, op) == [by |-> c, n |-> Len(sent[c]) + 1, op |-> op]

Send(c, units) ==
  /\ conn[c] = "open"
  /\ Len(sent[c]) + Len(units) <= MaxUnits[c]
  /\ wire' = [wire EXCEPT ![c] = @ \o units]
  /\ sent' = [sent EXCEPT ![c] = @ \o units]
  /\ UNCHANGED <<agentVars, queue, slot, rbuf, pollVars, conn, reply, eaten, got, why>>

SendPiece(c) ==
  /\ c \notin Ctl
  /\ \E op \in Ops \cup {"text"} : Send(c, <<Unit(c, op)>>)

(* cpe_ctl sends its line with one call. *)
SendRequest(c) ==
  /\ c \in Ctl
  /\ sent[c] = <<>>
  /\ \E op \in Ops : Send(c, <<Unit(c, "text"), [Unit(c, op) EXCEPT !.n = 2]>>)

(* A reply is read; cpe_ctl then closes. *)
ReadReply(c) ==
  /\ conn[c] \in {"open", "shut"}
  /\ reply[c] # <<>>
  /\ got' = [got EXCEPT ![c] = Append(@, Head(reply[c]))]
  /\ reply' = [reply EXCEPT ![c] = Tail(@)]
  /\ conn' = IF c \in Ctl THEN [conn EXCEPT ![c] = "left"] ELSE conn
  /\ UNCHANGED <<agentVars, queue, slot, rbuf, pollVars, wire, sent, eaten, why>>

(* End of file, or a send that fails, makes cpe_ctl return an error. *)
ReadEnd(c) ==
  /\ c \in Ctl
  /\ conn[c] = "shut" /\ reply[c] = <<>>
  /\ conn' = [conn EXCEPT ![c] = "left"]
  /\ UNCHANGED <<agentVars, queue, slot, rbuf, pollVars, wire, reply, sent, eaten, got, why>>

(* The client is killed or closes early; what it has sent can still be read. *)
Leave(c) ==
  /\ conn[c] \in {"open", "shut"}
  /\ conn' = [conn EXCEPT ![c] = "left"]
  /\ reply' = [reply EXCEPT ![c] = <<>>]
  /\ UNCHANGED <<agentVars, queue, slot, rbuf, pollVars, wire, sent, eaten, got, why>>

(***************************************************************************)
(* cpe_ipc_server_poll.                                                    *)
(***************************************************************************)
PollStart ==
  /\ up /\ pc = "idle"
  /\ pc' = "accept"
  /\ UNCHANGED <<agentVars, queue, slot, rbuf, cur, clientVars, eaten>>

Hang(c, cause) ==
  /\ conn' = IF conn[c] = "open" THEN [conn EXCEPT ![c] = "shut"] ELSE conn
  /\ why' = [why EXCEPT ![c] = cause]
  /\ wire' = [wire EXCEPT ![c] = <<>>]

FreeSlot == {i \in Slots : slot[i] = NoClient}

(* accept_clients: the first free slot, or none and the connection is closed. *)
AcceptOne ==
  /\ up /\ pc = "accept" /\ queue # <<>>
  /\ LET c == Head(queue)
     IN  IF FreeSlot # {}
         THEN LET i == CHOOSE i \in FreeSlot : \A j \in FreeSlot : i <= j
              IN  /\ slot' = [slot EXCEPT ![i] = c]
                  /\ rbuf' = [rbuf EXCEPT ![i] = <<>>]
                  /\ UNCHANGED <<conn, why, wire>>
         ELSE Hang(c, "full") /\ UNCHANGED <<slot, rbuf>>
  /\ queue' = Tail(queue)
  /\ UNCHANGED <<agentVars, pollVars, reply, sent, eaten, got>>

AcceptDone ==
  /\ up /\ pc = "accept" /\ queue = <<>>
  /\ pc' = "recv" /\ cur' = 0
  /\ UNCHANGED <<agentVars, queue, slot, rbuf, clientVars, eaten>>

NextSlot ==
  IF cur + 1 < SlotsMax THEN pc' = "recv" /\ cur' = cur + 1 ELSE pc' = "idle" /\ cur' = 0

CloseClient(cause) ==
  /\ slot' = [slot EXCEPT ![cur] = NoClient]
  /\ rbuf' = [rbuf EXCEPT ![cur] = <<>>]
  /\ Hang(slot[cur], cause)

(* Mutant: the socket was left blocking. *)
RecvBlocks ==
  /\ up /\ pc = "recv"
  /\ slot[cur] = NoClient
  /\ NextSlot
  /\ UNCHANGED <<agentVars, queue, slot, rbuf, clientVars, eaten>>

(* service_client up to the recv: nothing there, end of file, or units.    *)
RecvNothing ==
  /\ up /\ pc = "recv"
  /\ \/ slot[cur] = NoClient
     \/ slot[cur] # NoClient /\ wire[slot[cur]] = <<>> /\ conn[slot[cur]] = "open"
  /\ NextSlot
  /\ UNCHANGED <<agentVars, queue, slot, rbuf, clientVars, eaten>>

RecvEnd ==
  /\ up /\ pc = "recv"
  /\ slot[cur] # NoClient /\ wire[slot[cur]] = <<>> /\ conn[slot[cur]] # "open"
  /\ CloseClient("left")
  /\ NextSlot
  /\ UNCHANGED <<agentVars, queue, reply, sent, eaten, got>>

Room == BufMax - Len(rbuf[cur])

RecvUnits ==
  /\ up /\ pc = "recv"
  /\ slot[cur] # NoClient /\ wire[slot[cur]] # <<>>
  /\ LET c == slot[cur]
         k == IF Len(wire[c]) <= Room THEN Len(wire[c]) ELSE Room
     IN  /\ rbuf' = [rbuf EXCEPT ![cur] = @ \o SubSeq(wire[c], 1, k)]
         /\ wire' = [wire EXCEPT ![c] = SubSeq(@, k + 1, Len(@))]
  /\ pc' = "lines"
  /\ UNCHANGED <<agentVars, queue, slot, cur, conn, reply, sent, eaten, got, why>>

Newlines == {k \in 1..Len(rbuf[cur]) : rbuf[cur][k].op # "text"}
LineEndLast == CHOOSE k \in Newlines : \A j \in Newlines : j <= k   \* mutant
LineEnd == CHOOSE k \in Newlines : \A j \in Newlines : k <= j

(* One line whatever handle_request comes to: its result, the error it     *)
(* writes, or the error service_client writes when the result is too long. *)
Reply(line) == [to |-> line]

RestNothing == <<>>   \* mutant: what follows the line is dropped
Rest == SubSeq(rbuf[cur], LineEnd + 1, Len(rbuf[cur]))

(* Mutant: one line is handled for each recv. *)
AnswerLineOnce ==
  /\ up /\ pc = "lines" /\ Newlines # {}
  /\ LET c == slot[cur]
         line == rbuf[cur][LineEnd]
     IN  /\ eaten' = [eaten EXCEPT ![c] = @ \o SubSeq(rbuf[cur], 1, LineEnd)]
         /\ \/ /\ conn[c] = "open" /\ Len(reply[c]) < ReplyRoom
               /\ reply' = [reply EXCEPT ![c] = Append(@, Reply(line))]
               /\ rbuf' = [rbuf EXCEPT ![cur] = Rest]
               /\ UNCHANGED <<slot, conn, why, wire>>
            \/ /\ conn[c] # "open" \/ Len(reply[c]) = ReplyRoom
               /\ CloseClient(IF conn[c] # "open" THEN "left" ELSE "jam")
               /\ UNCHANGED reply
  /\ NextSlot
  /\ UNCHANGED <<agentVars, queue, sent, got>>

(* A complete line is handled and answered.  The answer is refused when    *)
(* the client has gone or does not read; then the slot is closed.          *)
AnswerLine ==
  /\ up /\ pc = "lines" /\ Newlines # {}
  /\ LET c == slot[cur]
         line == rbuf[cur][LineEnd]
     IN  /\ eaten' = [eaten EXCEPT ![c] = @ \o SubSeq(rbuf[cur], 1, LineEnd)]
         /\ \/ /\ conn[c] = "open" /\ Len(reply[c]) < ReplyRoom
               /\ reply' = [reply EXCEPT ![c] = Append(@, Reply(line))]
               /\ rbuf' = [rbuf EXCEPT ![cur] = Rest]
               /\ UNCHANGED <<slot, conn, why, wire, pc, cur>>
            \/ /\ conn[c] # "open" \/ Len(reply[c]) = ReplyRoom
               /\ CloseClient(IF conn[c] # "open" THEN "left" ELSE "jam")
               /\ NextSlot
               /\ UNCHANGED reply
  /\ UNCHANGED <<agentVars, queue, sent, got>>

(* Mutant: a full buffer is not noticed. *)
LinesDoneForgiving ==
  /\ up /\ pc = "lines" /\ Newlines = {}
  /\ NextSlot
  /\ UNCHANGED <<agentVars, queue, slot, rbuf, clientVars, eaten>>

(* No complete line is left; a full buffer without one ends the connection. *)
LinesDone ==
  /\ up /\ pc = "lines" /\ Newlines = {}
  /\ IF Len(rbuf[cur]) >= BufMax THEN CloseClient("long")
     ELSE UNCHANGED <<slot, rbuf, conn, why, wire>>
  /\ NextSlot
  /\ UNCHANGED <<agentVars, queue, reply, sent, eaten, got>>

Poll == PollStart \/ AcceptOne \/ AcceptDone \/ RecvNothing \/ RecvEnd \/ RecvUnits
        \/ AnswerLine \/ LinesDone

ClientStep(c) ==
  \/ Connect(c) \/ SendPiece(c) \/ SendRequest(c)
  \/ ReadReply(c) \/ ReadEnd(c) \/ Leave(c)

Next == Start \/ Stop \/ Crash \/ Poll \/ \E c \in Clients : ClientStep(c)

Spec == Init /\ [][Next]_vars
-----------------------------------------------------------------------------
Units == [by : Clients, n : Nat, op : Ops \cup {"text"}]
Replies == [to : Units]

(* Every variable holds a value of its type, and no buffer, backlog or     *)
(* socket holds more than it can.                                          *)
TypeOK ==
  /\ starts \in 0..MaxStarts /\ up \in BOOLEAN /\ path \in {"absent", "stale", "live"}
  /\ queue \in Seq(Clients) /\ Len(queue) <= Backlog
  /\ slot \in [Slots -> Clients \cup {NoClient}]
  /\ rbuf \in [Slots -> Seq(Units)] /\ \A i \in Slots : Len(rbuf[i]) <= BufMax
  /\ pc \in {"idle", "accept", "recv", "lines"} /\ cur \in Slots
  /\ conn \in [Clients -> {"new", "open", "shut", "left"}]
  /\ wire \in [Clients -> Seq(Units)] /\ sent \in [Clients -> Seq(Units)]
  /\ eaten \in [Clients -> Seq(Units)]
  /\ reply \in [Clients -> Seq(Replies)] /\ got \in [Clients -> Seq(Replies)]
  /\ \A c \in Clients : Len(reply[c]) <= ReplyRoom
  /\ why \in [Clients -> {"none", "left", "full", "down", "long", "jam"}]

(* No unit is lost, repeated, reordered or handed to another client on its *)
(* way through the socket and rbuf, whatever pieces the stream arrives in  *)
(* and whoever used the slot before.                                       *)
StreamIntact ==
  /\ up => \A i \in Slots : slot[i] # NoClient =>
        sent[slot[i]] = eaten[slot[i]] \o rbuf[i] \o wire[slot[i]]
  /\ \A c \in Clients : \A k \in 1..Len(eaten[c]) : eaten[c][k] = sent[c][k]

(* The lines of a client that were handled, by the place of their newline. *)
Asked(c) == {n \in 1..Len(eaten[c]) : eaten[c][n].op # "text"}

RepliesFor(c) ==
  LET back == got[c] \o reply[c]
  IN  /\ Len(back) <= Cardinality(Asked(c))
      /\ \A k \in 1..Len(back) : \E n \in Asked(c) :
           back[k].to = eaten[c][n] /\ Cardinality({m \in Asked(c) : m <= n}) = k
      /\ conn[c] = "open" => Len(back) = Cardinality(Asked(c))

(* A client gets one reply per line, to its own lines, in the order it     *)
(* sent them, as long as the connection is up; never more afterwards.      *)
RepliesInOrder == \A c \in Clients : RepliesFor(c)

(* service_client never calls recv with no room in rbuf: recv would return *)
(* 0 and a client with a request under way would be taken for gone.        *)
RecvHasRoom == up /\ pc = "recv" /\ slot[cur] # NoClient => Room > 0

(* cpe_ctl is turned away only when no agent runs or when every slot is    *)
(* taken at that moment: never for the length of its line, its slowness or *)
(* what other clients do to their own buffers, and never because a crash   *)
(* of an earlier agent left the socket file behind.                        *)
CtlServed ==
  [][\A c \in Ctl : why'[c] # why[c] =>
       \/ why'[c] = "left"
       \/ why'[c] = "down" /\ ~(up /\ up')
       \/ why'[c] = "full" /\ NoClient \notin {slot[i] : i \in Slots}]_vars

(* An open connection waits in the backlog or has a slot of a running      *)
(* agent, and no complete line of it is left in rbuf when service_client   *)
(* returns: the next recv would find nothing, and the client, which sets   *)
(* no timeout, would wait for ever.                                        *)
NoneStranded ==
  \A c \in Clients : conn[c] = "open" =>
    /\ up
    /\ \/ \E p \in 1..Len(queue) : queue[p] = c
       \/ \E i \in Slots :
            /\ slot[i] = c
            /\ (pc = "lines" /\ cur = i) \/ \A k \in 1..Len(rbuf[i]) : rbuf[i][k].op = "text"
=============================================================================
