-------------------------- MODULE NimBLEClientTable --------------------------
(***************************************************************************)
(* The clients of a device: NimBLEDevice::m_pClients, its lookups, and how *)
(* the end of a link finds its client.  The stack's argument of a          *)
(* disconnect event is not relied on: handleGapEvent() looks for the       *)
(* connection handle, which the stack reuses, and then for the address.    *)
(*                                                                         *)
(* NimBLEClient has the steps within the calls and the handler of one      *)
(* client; here each is one step, and several clients meet in the stack.   *)
(***************************************************************************)
EXTENDS Integers, FiniteSets

CONSTANTS
  Clients,     \* the NimBLEClient objects the application creates
  NoClient,    \* nullptr
  Addresses,   \* of the peers
  Conns,       \* the connection handles of the stack
  NoConn,      \* BLE_HS_CONN_HANDLE_NONE
  TableSize,   \* BLE_MAX_CONNECTIONS
  DeleteFlags  \* bound: the pairs that setSelfDelete() is given

ASSUME TableAssumption ==
  /\ NoClient \notin Clients /\ NoConn \notin Conns /\ Addresses # {}
  /\ TableSize \in Nat \ {0}
  /\ DeleteFlags \subseteq BOOLEAN \X BOOLEAN

VARIABLES
  obj,      \* the clients
  table,    \* m_pClients
  gap,      \* the stack: the attempt to connect and the links
  strayed   \* history: the clients made DISCONNECTED or deleted with either

tableVars == <<obj, table, gap, strayed>>

\* onLoss, onFail: deleteOnDisconnect and deleteOnConnectFail.
ClientObject ==
  [state : {"none", "live", "deleted"}, addr : Addresses,
   status : {"DISCONNECTED", "CONNECTING", "CONNECTED", "DISCONNECTING"},
   handle : Conns \cup {NoConn}, onLoss : BOOLEAN, onFail : BOOLEAN]

\* A link that is lost has no connection in the stack any more, and an event to come;
\* an unwanted one was refused when it came up.
LinkState == {"free", "open", "ending", "lost"}
GapLink == [state : LinkState, arg : Clients \cup {NoClient}, addr : Addresses,
            unwanted : BOOLEAN]
GapAttempt == [arg : Clients \cup {NoClient}, addr : Addresses]

TableTypeOK ==
  /\ obj \in [Clients -> ClientObject]
  /\ table \in [1..TableSize -> Clients \cup {NoClient}]
  /\ gap.attempt \in GapAttempt /\ gap.links \in [Conns -> GapLink]
  /\ strayed \in SUBSET Clients

SomeAddress == CHOOSE a \in Addresses : TRUE
NoAttempt == [arg |-> NoClient, addr |-> SomeAddress]
FreeLink == [state |-> "free", arg |-> NoClient, addr |-> SomeAddress, unwanted |-> FALSE]
NewClient(a) == [state |-> "live", addr |-> a, status |-> "DISCONNECTED",
                 handle |-> NoConn, onLoss |-> FALSE, onFail |-> FALSE]
DeletedClient == [NewClient(SomeAddress) EXCEPT !.state = "deleted"]

TableInit ==
  /\ obj = [c \in Clients |-> [NewClient(SomeAddress) EXCEPT !.state = "none"]]
  /\ table = [i \in 1..TableSize |-> NoClient]
  /\ gap = [attempt |-> NoAttempt, links |-> [h \in Conns |-> FreeLink]]
  /\ strayed = {}

-----------------------------------------------------------------------------
(* The lookups: the first of the table, or NoClient.                       *)

Lives(c) == obj[c].state = "live"
FirstIn(S) ==
  LET at == {i \in 1..TableSize : table[i] \in S}
  IN  IF at = {} THEN NoClient ELSE table[CHOOSE i \in at : \A j \in at : i <= j]

CreatedClientCount == Cardinality({i \in 1..TableSize : table[i] # NoClient})
ClientByHandle(h) == FirstIn({c \in Clients : obj[c].handle = h})
ClientByPeerAddress(a) == FirstIn({c \in Clients : obj[c].addr = a})
DisconnectedClient == FirstIn({c \in Clients : obj[c].status = "DISCONNECTED"})
ConnectedClients == {table[i] : i \in 1..TableSize} \cap
                    {c \in Clients : obj[c].status = "CONNECTED"}

-----------------------------------------------------------------------------
(* The application's calls.                                                *)

\* What the stack has of a client: its attempt, and the links that it accepted.
HasAttempt(c) == gap.attempt.arg = c
LinksOf(c) == {h \in Conns : gap.links[h].state # "free" /\ gap.links[h].arg = c
                               /\ ~gap.links[h].unwanted}

\* The client becomes DISCONNECTED, or is deleted, though it has one.
Strays(c) == strayed' = IF HasAttempt(c) \/ LinksOf(c) # {} THEN strayed \cup {c} ELSE strayed

\* createClient()
CreateClient(c, a) ==
  /\ obj[c].state = "none"
  /\ \E i \in 1..TableSize :
       /\ table[i] = NoClient
       /\ \A j \in 1..(i - 1) : table[j] # NoClient
       /\ table' = [table EXCEPT ![i] = c]
  /\ obj' = [obj EXCEPT ![c] = NewClient(a)]
  /\ UNCHANGED <<gap, strayed>>

SetPeerAddress(c, a) ==
  /\ Lives(c) /\ obj[c].status \notin {"CONNECTED", "CONNECTING"}
  /\ obj' = [obj EXCEPT ![c].addr = a]
  /\ UNCHANGED <<table, gap, strayed>>

SetSelfDelete(c, flags) ==
  /\ Lives(c)
  /\ obj' = [obj EXCEPT ![c].onLoss = flags[1], ![c].onFail = flags[2]]
  /\ UNCHANGED <<table, gap, strayed>>

\* A client object after the call or event, deleted with its place in the table if
\* deleteClient() finds it DISCONNECTED.
Becomes(c, o, delete) ==
  /\ obj' = [obj EXCEPT ![c] = IF delete THEN DeletedClient ELSE o]
  /\ table' = IF delete THEN [i \in 1..TableSize |-> IF table[i] = c THEN NoClient ELSE table[i]]
              ELSE table

\* ble_gap_connect(): one attempt at a time, and one link to a peer.
MayConnect(a) ==
  /\ gap.attempt = NoAttempt
  /\ \A h \in Conns : gap.links[h].state \in {"open", "ending"} => gap.links[h].addr # a

\* connect()
Attempt(c, a) ==
  /\ Lives(c) /\ obj[c].status = "DISCONNECTED" /\ MayConnect(a)
  /\ obj' = [obj EXCEPT ![c].status = "CONNECTING", ![c].addr = a]
  /\ gap' = [gap EXCEPT !.attempt = [arg |-> c, addr |-> a]]
  /\ UNCHANGED <<table, strayed>>

\* connect() that is refused by the stack, or as the client is not DISCONNECTED,
\* which it is from then on.
ConnectIsRefused(c, a) ==
  /\ Lives(c)
  /\ Becomes(c, IF obj[c].status = "DISCONNECTED"
                THEN [obj[c] EXCEPT !.addr = a]
                ELSE [obj[c] EXCEPT !.status = "DISCONNECTED"],
             obj[c].onFail)
  /\ Strays(c)
  /\ UNCHANGED gap

\* connect() cancels its attempt at its timeout.
ConnectTimesOut(c) ==
  /\ Lives(c) /\ obj[c].status = "CONNECTING" /\ HasAttempt(c)
  /\ Becomes(c, [obj[c] EXCEPT !.status = "DISCONNECTED"], obj[c].onFail)
  /\ Strays(c)
  /\ UNCHANGED gap

\* ble_gap_terminate() of the client's handle
Terminates(c) == obj[c].handle # NoConn /\ gap.links[obj[c].handle].state = "open"
Ending(c) ==
  gap' = IF Terminates(c) THEN [gap EXCEPT !.links[obj[c].handle].state = "ending"] ELSE gap
StatusAfterDisconnect(c) == IF Terminates(c) THEN "DISCONNECTING" ELSE obj[c].status

\* disconnect()
DisconnectClient(c) ==
  /\ Lives(c)
  /\ Ending(c)
  /\ obj' = [obj EXCEPT ![c].status = StatusAfterDisconnect(c)]
  /\ UNCHANGED <<table, strayed>>

\* deleteClient(): the client goes now, with its link or with its attempt.
DeleteTheClient(c) ==
  /\ Lives(c)
  /\ CASE obj[c].status \in {"CONNECTED", "DISCONNECTING"} ->
            /\ Ending(c)
            /\ Becomes(c, [obj[c] EXCEPT !.onLoss = TRUE, !.status = StatusAfterDisconnect(c)], FALSE)
            /\ UNCHANGED strayed
       [] obj[c].status = "CONNECTING" ->
            /\ Becomes(c, [obj[c] EXCEPT !.onFail = TRUE], FALSE)
            /\ UNCHANGED <<gap, strayed>>
       [] obj[c].status = "DISCONNECTED" ->
            /\ Becomes(c, obj[c], TRUE)
            /\ Strays(c)
            /\ UNCHANGED gap

-----------------------------------------------------------------------------
(* The events.  What an event does with a deleted client is undefined, and *)
(* not followed.                                                           *)

\* A link comes up: a client that no longer waits for it refuses it.
ConnectEvent(h) ==
  LET c == gap.attempt.arg
      wanted == obj[c].status = "CONNECTING"
  IN  /\ c # NoClient /\ Lives(c) /\ gap.links[h].state = "free"
      /\ gap' = [attempt |-> NoAttempt,
                 links |-> [gap.links EXCEPT ![h] =
                              [state |-> IF wanted THEN "open" ELSE "ending", arg |-> c,
                               addr |-> gap.attempt.addr, unwanted |-> ~wanted]]]
      /\ obj' = IF wanted THEN [obj EXCEPT ![c].status = "CONNECTED", ![c].handle = h]
                ELSE obj
      /\ UNCHANGED <<table, strayed>>

\* The attempt fails, or was cancelled.
ConnectFailEvent ==
  LET c == gap.attempt.arg
  IN  /\ c # NoClient /\ Lives(c)
      /\ gap' = [gap EXCEPT !.attempt = NoAttempt]
      /\ IF obj[c].status = "CONNECTING"
         THEN Becomes(c, [obj[c] EXCEPT !.status = "DISCONNECTED", !.handle = NoConn], obj[c].onFail)
         ELSE UNCHANGED <<obj, table>>
      /\ UNCHANGED strayed

\* The stack removes the connection, and then reports it.
ConnectionLost(h) ==
  /\ gap.links[h].state \in {"open", "ending"}
  /\ gap' = [gap EXCEPT !.links[h].state = "lost"]
  /\ UNCHANGED <<obj, table, strayed>>

FindClient(h, a) ==
  IF ClientByHandle(h) # NoClient THEN ClientByHandle(h) ELSE ClientByPeerAddress(a)

\* Mutant: the handle is kept.
AfterLossKeepsHandle(c) == [obj[c] EXCEPT !.status = "DISCONNECTED"]
AfterLoss(c) == [obj[c] EXCEPT !.status = "DISCONNECTED", !.handle = NoConn]

\* A client found by its address may be waiting for another link.  unmade: the
\* link was not established, and no retry is left or it is refused.
DisconnectEvent(h, unmade) ==
  LET c == FindClient(h, gap.links[h].addr)
  IN  /\ gap.links[h].state = "lost"
      /\ gap' = [gap EXCEPT !.links[h] = FreeLink]
      /\ IF c = NoClient THEN UNCHANGED <<obj, table, strayed>>
         ELSE /\ Becomes(c, AfterLoss(c), obj[c].onLoss \/ (unmade /\ obj[c].onFail))
              /\ strayed' = IF HasAttempt(c) \/ LinksOf(c) \ {h} # {} THEN strayed \cup {c}
                            ELSE strayed

\* The link was not established, and the client tries again.
RetryEvent(h) ==
  LET c == FindClient(h, gap.links[h].addr)
  IN  /\ gap.links[h].state = "lost" /\ c # NoClient
      /\ MayConnect(obj[c].addr)
      /\ obj' = [obj EXCEPT ![c].status = "CONNECTING", ![c].handle = NoConn]
      /\ gap' = [attempt |-> [arg |-> c, addr |-> obj[c].addr],
                 links |-> [gap.links EXCEPT ![h] = FreeLink]]
      /\ strayed' = IF LinksOf(c) \ {h} # {} THEN strayed \cup {c} ELSE strayed
      /\ UNCHANGED table

-----------------------------------------------------------------------------
\* Bound: once every client has strayed, nothing is claimed of any.
TableNext ==
  /\ strayed # Clients
  /\ \/ \E c \in Clients, a \in Addresses :
          CreateClient(c, a) \/ SetPeerAddress(c, a) \/ Attempt(c, a) \/ ConnectIsRefused(c, a)
     \/ \E c \in Clients : ConnectTimesOut(c) \/ DisconnectClient(c) \/ DeleteTheClient(c)
     \/ \E c \in Clients, flags \in DeleteFlags : SetSelfDelete(c, flags)
     \/ \E h \in Conns : ConnectEvent(h) \/ ConnectionLost(h) \/ RetryEvent(h)
     \/ \E h \in Conns, unmade \in BOOLEAN : DisconnectEvent(h, unmade)
     \/ ConnectFailEvent

-----------------------------------------------------------------------------
(* Property.                                                               *)

\* The clients are those of the table, each in one place.  Unless a client was made
\* DISCONNECTED with an attempt or link in the stack - by connect() at its timeout
\* or when it is called a second time, or by the loss of a refused link to the same
\* peer - its attempt's and links' events find it, by its handle; and the client
\* that getDisconnectedClient() offers for a connection has neither.
ClientsAreFound ==
  /\ TableTypeOK
  /\ CreatedClientCount = Cardinality({c \in Clients : Lives(c)})
  /\ \A c \in Clients : Lives(c) => \E i \in 1..TableSize : table[i] = c
  /\ \A c \in Clients \ strayed :
       /\ HasAttempt(c) => Lives(c) /\ obj[c].status = "CONNECTING"
       /\ \A h \in LinksOf(c) : Lives(c) /\ ClientByHandle(h) = c
       /\ c \in ConnectedClients => LinksOf(c) # {}
       /\ c = DisconnectedClient => ~HasAttempt(c) /\ LinksOf(c) = {}
=============================================================================
