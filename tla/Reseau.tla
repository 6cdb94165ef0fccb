------------------------------- MODULE Reseau -------------------------------
(***************************************************************************)
(* The two TCP connections between the server and its clients, as the code *)
(* uses them through TCP/fonctionsTCP.c and recv/send on whole structures: *)
(* one FIFO stream per direction, and what each end knows of the other.    *)
(*                                                                         *)
(* What a process sent before it closed its end can still be read; after   *)
(* that recv returns an error.  A send to a closed end may be accepted by  *)
(* the kernel all the same (the data is then lost) or fail.                *)
(***************************************************************************)
EXTENDS ProtocolYokai, Sequences

VARIABLES
  toServer,   \* toServer[p]: what client p has sent and the server not read
  toClient,   \* toClient[p]: what the server has sent and client p not read
  link,       \* link[p]: client p's end, "absent" before connect()
  serverUp    \* FALSE once the server has left, closing both sockets

netVars == <<toServer, toClient, link, serverUp>>

NetTypeOK ==
  /\ toServer \in [Players -> Seq(TPartieReq \union TCoupReq)]
  /\ toClient \in [Players -> Seq(TPartieRep \union TCoupRep \union TCoupReq)]
  /\ link \in [Players -> {"absent", "up", "down"}]
  /\ serverUp \in BOOLEAN

(* socketServeur has returned: the server listens, nobody has connected.   *)
NetInit ==
  /\ toServer = [p \in Players |-> <<>>]
  /\ toClient = [p \in Players |-> <<>>]
  /\ link = [p \in Players |-> "absent"]
  /\ serverUp = TRUE

(* socketClient: players are numbered in the order the server accepts them.*)
Connect(p) ==
  /\ link[p] = "absent"
  /\ p = 2 => link[1] # "absent"
  /\ link' = [link EXCEPT ![p] = "up"]

SendToServer(p, m) == toServer' = [toServer EXCEPT ![p] = Append(@, m)]

SendToClient(p, m) == toClient' = [toClient EXCEPT ![p] = Append(@, m)]
=============================================================================
