------------------------------- MODULE Reconnect -------------------------------
(***************************************************************************)
(* The connection of lxe to LXD: NewClient, connect and                    *)
(* detectNeedReconnect of lxf/client.go, over restarts of LXD and of lxe.  *)
(*                                                                         *)
(* NewClient connects once and then starts a goroutine that watches the    *)
(* directory of LXD's socket.  Every creation of the socket starts another *)
(* goroutine, which calls connect until it succeeds.  None of them knows   *)
(* of the others, and all of them write the same two fields of the client. *)
(*                                                                         *)
(* LXD is external: its starts are numbered, a connection belongs to the   *)
(* start it was made in and ends with it.  Dialing the socket by its path  *)
(* always reaches the LXD that runs.                                       *)
(***************************************************************************)
EXTENDS Naturals

CONSTANTS
    MaxStarts,     \* bound: how often LXD starts
    MaxExits       \* bound: how often lxe ends

ASSUME BoundsAssumption == MaxStarts \in Nat /\ MaxExits \in Nat

VARIABLES
    lxd,           \* LXD: [st, epoch]; epoch counts its starts
    lxe,           \* is the lxe process up?
    exits,         \* how often lxe has ended
    watch,         \* has the watcher been added?
    pending,       \* creations of the socket the watcher has not delivered yet
    spawned,       \* how many goroutines the watcher has started
    worker,        \* who calls connect: 0 is NewClient, the others goroutines
    server,        \* client.server: the start of LXD it was connected to, 0: none
    opwait,        \* client.opwait: the same
    missed,        \* history: LXD was restarted behind the back of NewClient
    rushed         \* history: LXD came back while lxe still dealt with its last return

clientVars  == <<server, opwait>>
historyVars == <<missed, rushed>>
vars == <<lxd, lxe, exits, watch, pending, spawned, worker, clientVars, historyVars>>

\* Every start of LXD creates the socket once, and so starts one goroutine
\* at most.
Workers == 0..MaxStarts

Epochs == 0..MaxStarts

Worker == [pc : {"none", "dial", "events", "handler", "server", "opwait", "done"},
           epoch : Epochs]

NoWorker == [pc |-> "none", epoch |-> 0]

\* The listener of a goroutine has its handler and its LXD still runs.
Listens(w) == /\ worker[w].pc \in {"server", "opwait", "done"}
              /\ lxd.st # "down"
              /\ worker[w].epoch = lxd.epoch

Busy(w) == worker[w].pc \notin {"none", "done"}

Init == /\ lxd = [st |-> "down", epoch |-> 0]
        /\ lxe = FALSE /\ exits = 0
        /\ watch = FALSE /\ pending = 0 /\ spawned = 0
        /\ worker = [w \in Workers |-> NoWorker]
        /\ server = 0 /\ opwait = 0
        /\ missed = FALSE /\ rushed = FALSE

-----------------------------------------------------------------------------
(* LXD creates its socket, and answers a while later.                       *)
LxdStart ==
    /\ lxd.st = "down" /\ lxd.epoch < MaxStarts
    /\ lxd' = [st |-> "booting", epoch |-> lxd.epoch + 1]
    /\ pending' = IF watch THEN pending + 1 ELSE pending
    /\ missed' = (missed \/ (~watch /\ worker[0].epoch # 0))
    /\ rushed' = (rushed \/ pending > 0 \/ \E w \in Workers \ {0} : Busy(w))
    /\ UNCHANGED <<lxe, exits, watch, spawned, worker, clientVars>>

LxdReady ==
    /\ lxd.st = "booting"
    /\ lxd' = [lxd EXCEPT !.st = "ready"]
    /\ UNCHANGED <<lxe, exits, watch, pending, spawned, worker, clientVars, historyVars>>

LxdEnd ==
    /\ lxd.st # "down"
    /\ lxd' = [lxd EXCEPT !.st = "down"]
    /\ UNCHANGED <<lxe, exits, watch, pending, spawned, worker, clientVars, historyVars>>

(* lxe starts with NewClient, which calls connect.                          *)
NewClient ==
    /\ ~lxe
    /\ lxe' = TRUE
    /\ worker' = [worker EXCEPT ![0].pc = "dial"]
    /\ UNCHANGED <<lxd, exits, watch, pending, spawned, clientVars, historyVars>>

\* The process ends: all that it knows is gone.
Forget ==
    /\ lxe' = FALSE /\ watch' = FALSE /\ pending' = 0 /\ spawned' = 0
    /\ worker' = [w \in Workers |-> NoWorker]
    /\ server' = 0 /\ opwait' = 0
    /\ missed' = FALSE /\ rushed' = FALSE
    /\ UNCHANGED lxd

(* lxe ends: it is stopped, it crashes, or the watcher fails, which is      *)
(* fatal whether it cannot be set up or reports an error later.             *)
Exit ==
    /\ lxe /\ exits < MaxExits
    /\ exits' = exits + 1
    /\ Forget

\* Mutant: a failed connect drops the client that was in use.
ConnectFails_Drops(w) ==
    /\ w # 0
    /\ worker' = [worker EXCEPT ![w] = [pc |-> "dial", epoch |-> 0]]
    /\ server' = 0
    /\ UNCHANGED <<lxd, lxe, exits, watch, pending, spawned, opwait, historyVars>>

\* Mutant: a goroutine gives up when connect fails.
ConnectFails_GivesUp(w) ==
    /\ w # 0
    /\ worker' = [worker EXCEPT ![w] = [pc |-> "done", epoch |-> 0]]
    /\ UNCHANGED <<lxd, lxe, exits, watch, pending, spawned, clientVars, historyVars>>

\* connect fails at its first or second request: NewClient gives up and lxe
\* ends, a goroutine tries again at once.
ConnectFails(w) ==
    \/ /\ w = 0
       /\ exits < MaxExits /\ exits' = exits + 1
       /\ Forget
    \/ /\ w # 0 /\ worker[w].pc # "dial"
       /\ worker' = [worker EXCEPT ![w] = [pc |-> "dial", epoch |-> 0]]
       /\ UNCHANGED <<lxd, lxe, exits, watch, pending, spawned, clientVars, historyVars>>

(* connect: ConnectLXDUnix.  It asks LXD for its description, so that LXD   *)
(* has to answer.                                                           *)
Dial(w) ==
    /\ worker[w].pc = "dial"
    /\ \/ /\ lxd.st = "ready"
          /\ worker' = [worker EXCEPT ![w].pc = "events"]
          /\ UNCHANGED <<lxd, lxe, exits, watch, pending, spawned, clientVars, historyVars>>
       \/ lxd.st # "ready" /\ ConnectFails(w)

(* connect: server.GetEvents opens the connection that events arrive on.    *)
GetEvents(w) ==
    /\ worker[w].pc = "events"
    /\ \/ /\ lxd.st = "ready"
          /\ worker' = [worker EXCEPT ![w] = [pc |-> "handler", epoch |-> lxd.epoch]]
          /\ UNCHANGED <<lxd, lxe, exits, watch, pending, spawned, clientVars, historyVars>>
       \/ lxd.st # "ready" /\ ConnectFails(w)

(* connect: AddHandler, which also succeeds when the connection has ended.  *)
AddHandler(w) ==
    /\ worker[w].pc = "handler"
    /\ worker' = [worker EXCEPT ![w].pc = "server"]
    /\ UNCHANGED <<lxd, lxe, exits, watch, pending, spawned, clientVars, historyVars>>

(* connect: the two assignments, which nothing protects.                    *)
SetServer(w) ==
    /\ worker[w].pc = "server"
    /\ server' = worker[w].epoch
    /\ worker' = [worker EXCEPT ![w].pc = "opwait"]
    /\ UNCHANGED <<lxd, lxe, exits, watch, pending, spawned, opwait, historyVars>>

\* Mutant: the waiter for operations keeps the client it was made with.
SetOpwait_Once(w) ==
    /\ worker[w].pc = "opwait"
    /\ opwait' = IF opwait = 0 THEN worker[w].epoch ELSE opwait
    /\ worker' = [worker EXCEPT ![w].pc = "done"]
    /\ UNCHANGED <<lxd, lxe, exits, watch, pending, spawned, server, historyVars>>

SetOpwait(w) ==
    /\ worker[w].pc = "opwait"
    /\ opwait' = worker[w].epoch
    /\ worker' = [worker EXCEPT ![w].pc = "done"]
    /\ UNCHANGED <<lxd, lxe, exits, watch, pending, spawned, server, historyVars>>

(* detectNeedReconnect starts once NewClient's connect has succeeded.       *)
AddWatch ==
    /\ lxe /\ ~watch /\ worker[0].pc = "done"
    /\ watch' = TRUE
    /\ UNCHANGED <<lxd, lxe, exits, pending, spawned, worker, clientVars, historyVars>>

\* Mutant: any event of the socket, its mode being set say, counts as created.
SocketCreated_AnyEvent ==
    /\ pending > 0
    /\ pending' \in {pending, pending - 1}
    /\ spawned' = spawned + 1
    /\ worker' = [worker EXCEPT ![spawned + 1].pc = "dial"]
    /\ UNCHANGED <<lxd, lxe, exits, watch, clientVars, historyVars>>

(* detectNeedReconnect gets the event of a created socket.  (A removal of   *)
(* the socket is only logged, other files are ignored.)                     *)
SocketCreated ==
    /\ pending > 0
    /\ pending' = pending - 1
    /\ spawned' = spawned + 1
    /\ worker' = [worker EXCEPT ![spawned + 1].pc = "dial"]
    /\ UNCHANGED <<lxd, lxe, exits, watch, clientVars, historyVars>>

Connect(w) == \/ Dial(w) \/ GetEvents(w) \/ AddHandler(w)
              \/ SetServer(w) \/ SetOpwait(w)

Next == \/ LxdStart \/ LxdReady \/ LxdEnd
        \/ NewClient \/ Exit \/ AddWatch \/ SocketCreated
        \/ \E w \in Workers : Connect(w)

Spec == Init /\ [][Next]_vars

\* Goroutines run, an LXD that has started answers some day.
Fairness == /\ WF_vars(LxdReady) /\ WF_vars(AddWatch) /\ WF_vars(SocketCreated)
            /\ \A w \in Workers : WF_vars(Connect(w))

FairSpec == Spec /\ Fairness

-----------------------------------------------------------------------------
TypeOK ==
    /\ lxd \in [st : {"down", "booting", "ready"}, epoch : Epochs]
    /\ lxe \in BOOLEAN /\ exits \in 0..MaxExits
    /\ watch \in BOOLEAN /\ pending \in 0..MaxStarts /\ spawned \in 0..MaxStarts
    /\ worker \in [Workers -> Worker]
    /\ server \in Epochs /\ opwait \in Epochs
    /\ missed \in BOOLEAN /\ rushed \in BOOLEAN

\* Every lifecycle event of LXD reaches the event handler once: two listeners
\* are registered with the same LXD only when LXD came back again before lxe
\* was done with its previous return (client.go:213, client.go:246).
HandledOnce ==
    rushed \/ \A v, w \in Workers : Listens(v) /\ Listens(w) => v = w

\* connect never puts back a client of an earlier LXD over one of a later LXD,
\* with the same exception (client.go:214 and 215 are not ordered between
\* goroutines).
ClientMovesOn ==
    [][lxe' /\ ~rushed => server' >= server /\ opwait' >= opwait]_vars

\* When no goroutine is at work and no creation of the socket is left to
\* deliver, a listener is registered with the LXD that runs, and, if it did
\* not rush, calls use clients connected to it: no order of restarts and
\* failed connects leaves lxe content with a connection of the past
\* (client.go:213 to 215, client.go:246).  The exception is the restart that
\* goes unnoticed between NewClient's connect and the start of the watcher.
RestIsConnected ==
    (/\ lxe /\ lxd.st # "down" /\ ~missed
     /\ pending = 0 /\ \A w \in Workers : ~Busy(w)) =>
        /\ \E w \in Workers : Listens(w)
        /\ rushed \/ (server = lxd.epoch /\ opwait = lxd.epoch)

\* When LXD and lxe stay up, a listener of lxe is registered with LXD some
\* day, for good: "we try to connect again until it is successful"
\* (client.go:222).  Only a restart of LXD between NewClient's connect and the
\* start of the watcher goes unnoticed.
ListenerArrives ==
    <>[](lxe /\ lxd.st # "down") => <>[](missed \/ \E w \in Workers : Listens(w))

\* Calls then use a client that was connected to the LXD that runs, which
\* RemoteOperations need (client.go:220).
ClientArrives ==
    <>[](lxe /\ lxd.st # "down")
        => <>[](missed \/ rushed \/ (server = lxd.epoch /\ opwait = lxd.epoch))
=============================================================================
