---------------------------- MODULE ReconnectProofs ----------------------------
(* For any number of restarts of LXD and of lxe: the goroutines that        *)
(* reconnect keep the types, and as long as LXD waits for one of them to be  *)
(* done before it comes back again, they leave one listener and move the     *)
(* client only forward.                                                      *)
EXTENDS Reconnect, TLAPS

Connected == {"handler", "server", "opwait", "done"}

\* Epochs are given out by GetEvents, from an LXD that has started.
EpochInv ==
    /\ lxd.st # "down" => lxd.epoch > 0
    /\ \A w \in Workers : /\ worker[w].epoch <= lxd.epoch
                          /\ worker[w].pc \in Connected <=> worker[w].epoch > 0

\* The watcher follows NewClient, the goroutines follow the watcher, and each
\* of them belongs to a start of LXD.
SpawnInv ==
    /\ pending + spawned <= lxd.epoch
    /\ \A w \in Workers : w > spawned => worker[w].pc = "none" \/ w = 0
    /\ watch => lxe /\ worker[0].pc = "done"
    /\ pending + spawned > 0 => watch
    /\ ~lxe => worker = [w \in Workers |-> NoWorker] /\ server = 0 /\ opwait = 0

\* At most one return of LXD is being dealt with, by the latest goroutine.
CalmInv ==
    /\ pending <= 1
    /\ \A w \in Workers \ {0} : Busy(w) => w = spawned /\ pending = 0

\* Goroutines connect to later and later starts of LXD, and one that has to
\* connect yet finds a start nobody has connected to.
OrderInv ==
    /\ \A v, w \in Workers :
          v < w /\ worker[w].epoch > 0 => worker[v].epoch < worker[w].epoch
    /\ (pending > 0 \/ \E w \in Workers \ {0} : worker[w].pc \in {"dial", "events"})
          => \A v \in Workers : worker[v].epoch < lxd.epoch

\* The client in use is one that some goroutine has stored.
StoredInv ==
    /\ server = 0 \/ \E v \in Workers : /\ worker[v].pc \in {"opwait", "done"}
                                        /\ server = worker[v].epoch
    /\ opwait = 0 \/ \E v \in Workers : /\ worker[v].pc = "done"
                                        /\ opwait = worker[v].epoch

IInv == /\ TypeOK /\ EpochInv /\ SpawnInv /\ StoredInv
        /\ ~rushed => CalmInv /\ OrderInv

-----------------------------------------------------------------------------
\* An ended process leaves nothing: every part of the invariant holds again.
LEMMA ForgetStep ==
    ASSUME TypeOK, EpochInv, Forget, exits' \in 0..MaxExits
    PROVE  IInv'
<1> USE BoundsAssumption
<1>1. TypeOK'
  <2>1. worker' \in [Workers -> Worker]
    BY DEF Forget, Workers, Worker, NoWorker, Epochs
  <2>2. 0 \in Epochs /\ 0 \in 0..MaxStarts
    BY DEF Epochs
  <2>3. QED BY <2>1, <2>2 DEF TypeOK, Forget
<1>2. EpochInv' BY <1>1 DEF TypeOK, EpochInv, Forget, NoWorker, Connected, Epochs, Workers
<1>3. SpawnInv' BY <1>1 DEF TypeOK, SpawnInv, Forget, NoWorker, Epochs, Workers
<1>4. StoredInv' BY DEF StoredInv, Forget
<1>5. CalmInv' BY DEF CalmInv, Forget, NoWorker, Busy, Workers
<1>6. OrderInv' BY DEF OrderInv, Forget, NoWorker, Workers
<1>7. QED BY <1>1, <1>2, <1>3, <1>4, <1>5, <1>6 DEF IInv

\* What is left when the process goes on.
Stays(w) == \/ /\ worker[w].pc = "dial" /\ lxd.st = "ready"
               /\ worker' = [worker EXCEPT ![w].pc = "events"]
               /\ UNCHANGED <<server, opwait>>
            \/ /\ worker[w].pc = "events" /\ lxd.st = "ready"
               /\ worker' = [worker EXCEPT ![w] = [pc |-> "handler", epoch |-> lxd.epoch]]
               /\ UNCHANGED <<server, opwait>>
            \/ /\ worker[w].pc = "events" /\ w # 0
               /\ worker' = [worker EXCEPT ![w] = [pc |-> "dial", epoch |-> 0]]
               /\ UNCHANGED <<server, opwait>>
            \/ /\ worker[w].pc = "handler"
               /\ worker' = [worker EXCEPT ![w].pc = "server"]
               /\ UNCHANGED <<server, opwait>>
            \/ /\ worker[w].pc = "server"
               /\ worker' = [worker EXCEPT ![w].pc = "opwait"]
               /\ server' = worker[w].epoch /\ UNCHANGED opwait
            \/ /\ worker[w].pc = "opwait"
               /\ worker' = [worker EXCEPT ![w].pc = "done"]
               /\ opwait' = worker[w].epoch /\ UNCHANGED server

Others == UNCHANGED <<lxd, lxe, exits, watch, pending, spawned, historyVars>>

\* A step of connect either ends the process or is one of the steps above.
LEMMA ConnectCases ==
    ASSUME NEW w \in Workers, Connect(w), TypeOK
    PROVE  \/ Forget /\ exits' \in 0..MaxExits
           \/ Stays(w) /\ Others
<1>1. CASE Dial(w)
  BY <1>1, BoundsAssumption DEF Dial, ConnectFails, Stays, Others, TypeOK, clientVars, historyVars
<1>2. CASE GetEvents(w)
  BY <1>2, BoundsAssumption DEF GetEvents, ConnectFails, Stays, Others, TypeOK, clientVars, historyVars
<1>3. CASE AddHandler(w)
  BY <1>3 DEF AddHandler, Stays, Others, clientVars
<1>4. CASE SetServer(w)
  BY <1>4 DEF SetServer, Stays, Others
<1>5. CASE SetOpwait(w)
  BY <1>5 DEF SetOpwait, Stays, Others
<1>6. QED BY <1>1, <1>2, <1>3, <1>4, <1>5 DEF Connect

\* The new state of the goroutines after such a step, one by one.
LEMMA WorkerAfter ==
    ASSUME NEW w \in Workers, TypeOK, EpochInv, Stays(w), UNCHANGED lxd
    PROVE  /\ worker' \in [Workers -> Worker]
           /\ \A v \in Workers : v # w => worker'[v] = worker[v]
           /\ worker[w].pc \in {"dial", "events", "handler", "server", "opwait"}
           /\ worker'[w].pc # "none"
           /\ worker[w].pc \in {"dial", "events"} => worker[w].epoch = 0
           /\ \/ worker'[w].epoch = worker[w].epoch /\ worker[w].pc # "opwait" /\ worker'[w].pc # "done"
                 /\ (worker'[w].pc \in Connected <=> worker[w].pc \in Connected)
              \/ worker'[w].epoch = worker[w].epoch /\ worker[w].pc = "opwait" /\ worker'[w].pc = "done"
              \/ worker[w].pc = "events" /\ worker'[w].pc = "handler" /\ worker'[w].epoch = lxd.epoch /\ lxd.st = "ready"
<1>1. worker \in [Workers -> Worker] /\ lxd.epoch \in Epochs /\ worker[w].epoch \in Nat
  BY BoundsAssumption DEF TypeOK, Worker, Epochs
<1>2. worker[w].pc \in Connected <=> worker[w].epoch > 0
  BY DEF EpochInv
<1>3. QED
  BY <1>1, <1>2, BoundsAssumption DEF Stays, Worker, Epochs, Connected

LEMMA ExitCase == ASSUME Exit, TypeOK PROVE Forget /\ exits' \in 0..MaxExits
BY BoundsAssumption DEF Exit, TypeOK

\* LxdStart, SocketCreated and NewClient, with the goroutines one by one.
LEMMA StartAfter ==
    ASSUME LxdStart, IInv
    PROVE  /\ lxd'.st = "booting" /\ lxd'.epoch = lxd.epoch + 1 /\ lxd'.epoch \in Epochs
           /\ pending' \in Nat /\ (pending' = pending \/ (pending' = pending + 1 /\ watch))
           /\ UNCHANGED <<lxe, exits, watch, spawned, worker, server, opwait>>
           /\ ~rushed' => ~rushed /\ pending = 0 /\ \A w \in Workers \ {0} : ~Busy(w)
           /\ missed' \in BOOLEAN /\ rushed' \in BOOLEAN
<1>1. missed' \in BOOLEAN /\ rushed' \in BOOLEAN
  BY Zenon DEF LxdStart
<1>2. ~rushed' => ~rushed /\ ~(pending > 0) /\ \A w \in Workers \ {0} : ~Busy(w)
  BY Zenon DEF LxdStart
<1>3. QED
  BY <1>1, <1>2, BoundsAssumption DEF LxdStart, IInv, TypeOK, Epochs, clientVars

LEMMA CreatedAfter ==
    ASSUME SocketCreated, IInv
    PROVE  /\ spawned + 1 \in Workers /\ spawned + 1 # 0
           /\ pending' = pending - 1 /\ pending' \in Nat /\ spawned' = spawned + 1 /\ pending > 0
           /\ worker' \in [Workers -> Worker]
           /\ worker[spawned + 1].epoch = 0 /\ worker[spawned + 1].pc = "none"
           /\ worker'[spawned + 1] = [pc |-> "dial", epoch |-> 0]
           /\ \A v \in Workers : v # spawned + 1 => worker'[v] = worker[v]
           /\ UNCHANGED <<lxd, lxe, exits, watch, server, opwait, missed, rushed>>
<1>1. /\ worker \in [Workers -> Worker] /\ pending \in Nat /\ spawned \in Nat
      /\ lxd.epoch \in 0..MaxStarts /\ pending + spawned <= lxd.epoch /\ pending > 0
  BY BoundsAssumption DEF IInv, TypeOK, SpawnInv, Epochs, SocketCreated
<1>2. spawned + 1 \in Workers /\ spawned + 1 # 0
  BY <1>1, BoundsAssumption DEF Workers
<1>3. worker[spawned + 1].pc = "none"
  BY <1>1, <1>2 DEF IInv, SpawnInv
<1>4. worker[spawned + 1].epoch = 0
  BY <1>1, <1>2, <1>3, BoundsAssumption DEF IInv, EpochInv, Connected, Worker, Epochs
<1>5. QED
  BY <1>1, <1>2, <1>3, <1>4 DEF SocketCreated, Worker, clientVars, historyVars

LEMMA NewAfter ==
    ASSUME NewClient, IInv
    PROVE  /\ 0 \in Workers /\ worker' \in [Workers -> Worker]
           /\ worker'[0] = [pc |-> "dial", epoch |-> 0]
           /\ \A v \in Workers : worker[v] = NoWorker
           /\ \A v \in Workers : v # 0 => worker'[v] = NoWorker
           /\ pending = 0 /\ spawned = 0 /\ ~watch /\ ~lxe /\ lxe' = TRUE
           /\ server = 0 /\ opwait = 0
           /\ UNCHANGED <<lxd, exits, watch, pending, spawned, server, opwait, missed, rushed>>
<1>1. 0 \in Workers /\ worker = [w \in Workers |-> NoWorker] /\ ~watch /\ ~lxe
      /\ server = 0 /\ opwait = 0
  BY BoundsAssumption DEF NewClient, IInv, SpawnInv, Workers
<1>2. pending = 0 /\ spawned = 0
  BY <1>1, BoundsAssumption DEF IInv, SpawnInv, TypeOK
<1>3. QED
  BY <1>1, <1>2, BoundsAssumption DEF NewClient, IInv, TypeOK, NoWorker, Worker, Epochs, clientVars, historyVars

\* The actions that leave the goroutines alone.
Quiet == \/ LxdReady \/ LxdEnd \/ AddWatch \/ UNCHANGED vars

LEMMA QuietAfter ==
    ASSUME Quiet, IInv
    PROVE  /\ lxd'.epoch = lxd.epoch /\ lxd'.st \in {"down", "booting", "ready"}
           /\ lxd' \in [st : {"down", "booting", "ready"}, epoch : Epochs]
           /\ lxd'.st # "down" => lxd.st # "down"
           /\ watch' \in BOOLEAN /\ (watch => watch')
           /\ watch' => watch \/ (lxe /\ worker[0].pc = "done")
           /\ UNCHANGED <<lxe, exits, pending, spawned, worker, server, opwait, missed, rushed>>
<1>1. lxd \in [st : {"down", "booting", "ready"}, epoch : Epochs] /\ watch \in BOOLEAN
  BY DEF IInv, TypeOK
<1>2. CASE LxdReady BY <1>1, <1>2 DEF LxdReady, clientVars, historyVars
<1>3. CASE LxdEnd BY <1>1, <1>3 DEF LxdEnd, clientVars, historyVars
<1>4. CASE AddWatch BY <1>1, <1>4 DEF AddWatch, clientVars, historyVars
<1>5. CASE UNCHANGED vars BY <1>1, <1>5 DEF vars, clientVars, historyVars
<1>6. QED BY <1>2, <1>3, <1>4, <1>5 DEF Quiet

LEMMA NextCases ==
    ASSUME IInv, [Next]_vars
    PROVE  \/ LxdStart \/ NewClient \/ SocketCreated \/ Quiet
           \/ Forget /\ exits' \in 0..MaxExits
           \/ \E w \in Workers : Stays(w) /\ Others
BY ExitCase, ConnectCases DEF Next, Quiet, IInv

LEMMA Types ==
    ASSUME TypeOK
    PROVE  /\ lxd.epoch \in Nat /\ pending \in Nat /\ spawned \in Nat
           /\ server \in Nat /\ opwait \in Nat
           /\ \A v \in Workers : v \in Nat /\ worker[v].epoch \in Nat
           /\ 0 \in Workers
BY BoundsAssumption DEF TypeOK, Worker, Workers, Epochs

\* Each part of the invariant is kept by every action.
LEMMA TypeStep ==
    ASSUME IInv, [Next]_vars
    PROVE  TypeOK'
<1>0. TypeOK /\ pending + spawned <= lxd.epoch BY DEF IInv, SpawnInv
<1>1. CASE LxdStart
  <2>1. pending' \in 0..MaxStarts
    <3>1. lxd.epoch + 1 \in 0..MaxStarts BY <1>1, StartAfter DEF Epochs
    <3>2. QED BY <1>0, <1>1, <3>1, StartAfter, Types, BoundsAssumption
  <2>2. lxd' \in [st : {"down", "booting", "ready"}, epoch : Epochs]
    BY <1>1, StartAfter DEF LxdStart
  <2>3. QED BY <1>0, <1>1, <2>1, <2>2, StartAfter DEF TypeOK
<1>2. CASE NewClient
  BY <1>0, <1>2, NewAfter DEF TypeOK
<1>3. CASE SocketCreated
  <2>1. pending' \in 0..MaxStarts /\ spawned' \in 0..MaxStarts
    BY <1>0, <1>3, CreatedAfter, Types, BoundsAssumption DEF TypeOK, Workers
  <2>2. QED BY <1>0, <1>3, <2>1, CreatedAfter DEF TypeOK
<1>4. CASE Quiet
  BY <1>0, <1>4, QuietAfter DEF TypeOK
<1>5. CASE Forget /\ exits' \in 0..MaxExits
  BY <1>0, <1>5, ForgetStep DEF IInv
<1>6. ASSUME NEW w \in Workers, Stays(w), Others PROVE TypeOK'
  <2>1. worker' \in [Workers -> Worker]
    BY <1>0, <1>6, WorkerAfter DEF IInv, Others
  <2>2. server' \in Epochs /\ opwait' \in Epochs
    BY <1>0, <1>6 DEF TypeOK, Stays, Worker
  <2>3. QED BY <1>0, <1>6, <2>1, <2>2 DEF TypeOK, Others, historyVars
<1>7. QED BY <1>1, <1>2, <1>3, <1>4, <1>5, <1>6, NextCases

LEMMA EpochStep ==
    ASSUME IInv, [Next]_vars
    PROVE  EpochInv'
<1>0. TypeOK /\ EpochInv BY DEF IInv
<1>1. CASE LxdStart
  <2>1. worker' = worker /\ lxd'.epoch = lxd.epoch + 1 BY <1>1, StartAfter
  <2>2. QED BY <1>0, <2>1, Types DEF EpochInv
<1>2. CASE NewClient
  BY <1>0, <1>2, NewAfter, Types DEF EpochInv, NoWorker, Connected
<1>3. CASE SocketCreated
  BY <1>0, <1>3, CreatedAfter, Types DEF EpochInv, Connected
<1>4. CASE Quiet
  BY <1>0, <1>4, QuietAfter DEF EpochInv
<1>5. CASE Forget /\ exits' \in 0..MaxExits
  BY <1>0, <1>5, ForgetStep DEF IInv
<1>6. ASSUME NEW w \in Workers, Stays(w), Others PROVE EpochInv'
  <2>1. UNCHANGED lxd BY <1>6 DEF Others
  <2>2. /\ worker'[w].epoch <= lxd.epoch
        /\ worker'[w].pc \in Connected <=> worker'[w].epoch > 0
    BY <1>0, <1>6, <2>1, WorkerAfter, Types DEF EpochInv, Connected
  <2>3. QED BY <1>0, <1>6, <2>1, <2>2, WorkerAfter DEF EpochInv
<1>7. QED BY <1>1, <1>2, <1>3, <1>4, <1>5, <1>6, NextCases

LEMMA SpawnStep ==
    ASSUME IInv, [Next]_vars
    PROVE  SpawnInv'
<1>0. TypeOK /\ EpochInv /\ SpawnInv BY DEF IInv
<1>1. CASE LxdStart
  BY <1>0, <1>1, StartAfter, Types DEF SpawnInv
<1>2. CASE NewClient
  BY <1>0, <1>2, NewAfter, Types DEF SpawnInv, NoWorker
<1>3. CASE SocketCreated
  <2>1. watch /\ lxe /\ worker[0].pc = "done" BY <1>0, <1>3, CreatedAfter, Types DEF SpawnInv
  <2>2. \A v \in Workers : v > spawned' => worker'[v].pc = "none" \/ v = 0
    BY <1>0, <1>3, CreatedAfter, Types DEF SpawnInv
  <2>3. QED BY <1>0, <1>3, <2>1, <2>2, CreatedAfter, Types DEF SpawnInv
<1>4. CASE Quiet
  BY <1>0, <1>4, QuietAfter DEF SpawnInv
<1>5. CASE Forget /\ exits' \in 0..MaxExits
  BY <1>0, <1>5, ForgetStep DEF IInv
<1>6. ASSUME NEW w \in Workers, Stays(w), Others PROVE SpawnInv'
  <2>0. UNCHANGED <<lxd, lxe, watch, pending, spawned>> BY <1>6 DEF Others
  <2>1. lxe /\ ~(w > spawned /\ w # 0) /\ (watch => w # 0)
    BY <1>0, <1>6, <2>0, WorkerAfter DEF SpawnInv, NoWorker
  <2>2. watch => worker'[0].pc = "done"
    BY <1>0, <1>6, <2>0, <2>1, WorkerAfter, Types DEF SpawnInv
  <2>3. \A v \in Workers : v > spawned => worker'[v].pc = "none" \/ v = 0
    BY <1>0, <1>6, <2>0, <2>1, WorkerAfter DEF SpawnInv
  <2>4. QED BY <1>0, <2>0, <2>1, <2>2, <2>3 DEF SpawnInv
<1>7. QED BY <1>1, <1>2, <1>3, <1>4, <1>5, <1>6, NextCases

LEMMA StoredStep ==
    ASSUME IInv, [Next]_vars
    PROVE  StoredInv'
<1>0. TypeOK /\ EpochInv /\ StoredInv BY DEF IInv
<1>1. CASE LxdStart
  BY <1>0, <1>1, StartAfter DEF StoredInv
<1>2. CASE NewClient
  BY <1>2, NewAfter DEF StoredInv
<1>3. CASE SocketCreated
  <2>1. ASSUME NEW v \in Workers, worker[v].pc \in {"opwait", "done"}
        PROVE  worker'[v] = worker[v]
    BY <1>3, <2>1, CreatedAfter
  <2>2. QED BY <1>0, <1>3, <2>1, CreatedAfter DEF StoredInv
<1>4. CASE Quiet
  BY <1>0, <1>4, QuietAfter DEF StoredInv
<1>5. CASE Forget /\ exits' \in 0..MaxExits
  BY <1>0, <1>5, ForgetStep DEF IInv
<1>6. ASSUME NEW w \in Workers, Stays(w), Others PROVE StoredInv'
  <2>0. UNCHANGED lxd BY <1>6 DEF Others
  <2>1. \A v \in Workers :
           /\ worker[v].pc = "done" => worker'[v] = worker[v]
           /\ worker[v].pc = "opwait" => /\ worker'[v].pc \in {"opwait", "done"}
                                         /\ worker'[v].epoch = worker[v].epoch
    BY <1>0, <1>6, <2>0, WorkerAfter
  <2>2. server' = server \/ (server' = worker'[w].epoch /\ worker'[w].pc = "opwait")
    BY <1>0, <1>6 DEF Stays, TypeOK, Worker
  <2>3. opwait' = opwait \/ (opwait' = worker'[w].epoch /\ worker'[w].pc = "done")
    BY <1>0, <1>6 DEF Stays, TypeOK, Worker
  <2>4. server' = 0 \/ \E v \in Workers : /\ worker'[v].pc \in {"opwait", "done"}
                                          /\ server' = worker'[v].epoch
    BY <1>0, <2>1, <2>2 DEF StoredInv
  <2>5. opwait' = 0 \/ \E v \in Workers : /\ worker'[v].pc = "done"
                                          /\ opwait' = worker'[v].epoch
    BY <1>0, <2>1, <2>3 DEF StoredInv
  <2>6. QED BY <2>4, <2>5 DEF StoredInv
<1>7. QED BY <1>1, <1>2, <1>3, <1>4, <1>5, <1>6, NextCases

LEMMA CalmStep ==
    ASSUME IInv, [Next]_vars, ~rushed'
    PROVE  CalmInv'
<1>0. TypeOK /\ EpochInv /\ SpawnInv BY DEF IInv
<1>1. CASE LxdStart
  BY <1>0, <1>1, StartAfter, Types DEF CalmInv, Busy
<1>2. CASE NewClient
  BY <1>0, <1>2, NewAfter DEF CalmInv, Busy, NoWorker
<1>3. CASE SocketCreated
  <2>1. CalmInv /\ pending = 1 BY <1>0, <1>3, CreatedAfter, Types DEF CalmInv, IInv
  <2>2. QED BY <1>0, <1>3, <2>1, CreatedAfter, Types DEF CalmInv, Busy
<1>4. CASE Quiet
  BY <1>0, <1>4, QuietAfter DEF CalmInv, Busy, IInv
<1>5. CASE Forget /\ exits' \in 0..MaxExits
  BY <1>0, <1>5, ForgetStep DEF IInv
<1>6. ASSUME NEW w \in Workers, Stays(w), Others PROVE CalmInv'
  <2>0. UNCHANGED <<lxd, pending, spawned, rushed>> BY <1>6 DEF Others, historyVars
  <2>1. CalmInv BY <2>0 DEF IInv
  <2>2. QED BY <1>0, <1>6, <2>0, <2>1, WorkerAfter DEF CalmInv, Busy
<1>7. QED BY <1>1, <1>2, <1>3, <1>4, <1>5, <1>6, NextCases

LEMMA OrderStep ==
    ASSUME IInv, [Next]_vars, ~rushed'
    PROVE  OrderInv'
<1>0. TypeOK /\ EpochInv /\ SpawnInv BY DEF IInv
<1>1. CASE LxdStart
  <2>1. /\ OrderInv /\ worker' = worker /\ lxd'.epoch = lxd.epoch + 1
    BY <1>1, StartAfter DEF IInv
  <2>2. \A v \in Workers : worker'[v].epoch < lxd'.epoch
    BY <1>0, <2>1, Types DEF EpochInv
  <2>3. QED BY <2>1, <2>2 DEF OrderInv
<1>2. CASE NewClient
  BY <1>0, <1>2, NewAfter, Types DEF OrderInv, NoWorker
<1>3. CASE SocketCreated
  <2>1. OrderInv /\ pending > 0 /\ lxd' = lxd BY <1>3, CreatedAfter DEF IInv
  <2>2. \A v \in Workers : worker'[v].epoch = worker[v].epoch
    BY <1>3, CreatedAfter
  <2>3. \A v \in Workers : worker'[v].epoch < lxd'.epoch
    BY <2>1, <2>2 DEF OrderInv
  <2>4. QED BY <2>1, <2>2, <2>3 DEF OrderInv
<1>4. CASE Quiet
  BY <1>0, <1>4, QuietAfter DEF OrderInv, IInv
<1>5. CASE Forget /\ exits' \in 0..MaxExits
  BY <1>0, <1>5, ForgetStep DEF IInv
<1>6. ASSUME NEW w \in Workers, Stays(w), Others PROVE OrderInv'
  <2>0. UNCHANGED <<lxd, pending, spawned, watch, rushed>> BY <1>6 DEF Others, historyVars
  <2>1. OrderInv /\ CalmInv BY <2>0 DEF IInv
  <2>2. \A v \in Workers : v # w => worker'[v] = worker[v]
    BY <1>0, <1>6, <2>0, WorkerAfter
  <2>3. CASE /\ worker'[w].epoch = worker[w].epoch
             /\ worker'[w].pc \in Connected <=> worker[w].pc \in Connected
    <3>1. \A v \in Workers : worker'[v].epoch = worker[v].epoch
      BY <2>2, <2>3
    <3>2. worker'[w].pc \in {"dial", "events"} => worker[w].pc \in {"dial", "events"}
      BY <1>0, <1>6, <2>0, <2>3, WorkerAfter DEF Connected
    <3>3. QED BY <2>0, <2>1, <2>2, <3>1, <3>2 DEF OrderInv
  <2>4. CASE worker[w].pc = "events" /\ worker'[w].pc = "handler" /\ worker'[w].epoch = lxd.epoch
    <3>1. ASSUME w = 0 PROVE spawned = 0 /\ pending = 0
      BY <1>0, <2>4, <3>1, Types DEF SpawnInv
    <3>2. ASSUME w # 0 PROVE spawned = w /\ pending = 0
      BY <1>6, <2>1, <2>4, <3>2 DEF CalmInv, Busy
    <3>3. spawned = w /\ pending = 0 BY <3>1, <3>2
    <3>4. \A v \in Workers : v > w => worker[v].epoch = 0 /\ worker[v].pc = "none"
      BY <1>0, <3>3, Types DEF SpawnInv, EpochInv, Connected
    <3>5. \A v \in Workers : v < w => worker[v].epoch < lxd.epoch
      BY <1>0, <1>6, <2>1, <2>4, Types DEF OrderInv
    <3>6. \A v \in Workers \ {0} : worker'[v].pc \notin {"dial", "events"}
      BY <1>0, <1>6, <2>1, <2>2, <2>4, <3>3 DEF CalmInv, Busy
    <3>7. ASSUME NEW u \in Workers, NEW v \in Workers, u < v, worker'[v].epoch > 0
          PROVE  worker'[u].epoch < worker'[v].epoch
      <4>1. CASE v = w BY <1>0, <2>2, <2>4, <3>5, <3>7, <4>1, Types
      <4>2. CASE u = w BY <1>0, <2>2, <3>4, <3>7, <4>2, Types
      <4>3. CASE u # w /\ v # w BY <2>1, <2>2, <3>7, <4>3 DEF OrderInv
      <4>4. QED BY <4>1, <4>2, <4>3
    <3>8. ~(pending' > 0) BY <2>0, <3>3
    <3>9. QED BY <3>6, <3>7, <3>8 DEF OrderInv
  <2>5. CASE worker'[w].epoch = worker[w].epoch /\ worker[w].pc = "opwait" /\ worker'[w].pc = "done"
    BY <2>3, <2>5 DEF Connected
  <2>6. QED BY <1>0, <1>6, <2>0, <2>3, <2>4, <2>5, WorkerAfter
<1>7. QED BY <1>1, <1>2, <1>3, <1>4, <1>5, <1>6, NextCases

LEMMA Initial == Init => IInv
<1> SUFFICES ASSUME Init PROVE IInv OBVIOUS
<1> USE BoundsAssumption
<1>1. TypeOK
  <2>1. worker \in [Workers -> Worker] BY DEF Init, Worker, NoWorker, Epochs
  <2>2. 0 \in Epochs /\ 0 \in 0..MaxStarts /\ 0 \in 0..MaxExits BY DEF Epochs
  <2>3. QED BY <2>1, <2>2 DEF Init, TypeOK
<1>2. EpochInv /\ SpawnInv /\ StoredInv
  BY <1>1, Types DEF Init, EpochInv, SpawnInv, StoredInv, NoWorker, Connected
<1>3. CalmInv /\ OrderInv
  BY <1>1, Types DEF Init, CalmInv, OrderInv, NoWorker, Busy
<1>4. QED BY <1>1, <1>2, <1>3 DEF IInv

LEMMA Inductive == IInv /\ [Next]_vars => IInv'
BY TypeStep, EpochStep, SpawnStep, StoredStep, CalmStep, OrderStep DEF IInv

LEMMA Always == Spec => []IInv
BY Initial, Inductive, PTL DEF Spec

-----------------------------------------------------------------------------
\* The goroutines of connect and the watcher keep the types of the client,
\* for any number of restarts of LXD and of lxe.
THEOREM ReconnectTypes == Spec => []TypeOK
<1>1. IInv => TypeOK BY DEF IInv
<1>2. QED BY <1>1, Always, PTL

\* However often LXD and lxe restart, no event is handled twice unless LXD
\* came back before lxe was done with its previous return.
THEOREM ReconnectHandledOnce == Spec => []HandledOnce
<1>1. ASSUME IInv PROVE HandledOnce
  <2>1. SUFFICES ASSUME ~rushed, NEW v \in Workers, NEW w \in Workers, Listens(v), Listens(w)
                 PROVE  v = w
    BY Zenon DEF HandledOnce
  <2>2. OrderInv /\ EpochInv /\ TypeOK BY <1>1, <2>1 DEF IInv
  <2>3. worker[v].epoch = lxd.epoch /\ worker[w].epoch = lxd.epoch /\ lxd.epoch > 0
    BY <2>1, <2>2 DEF Listens, EpochInv
  <2>4. ~(v < w) /\ ~(w < v) BY <2>2, <2>3, Types DEF OrderInv
  <2>5. QED BY <2>2, <2>4, Types
<1>2. QED BY <1>1, Always, PTL

\* A step of a process that goes on keeps or advances the client.
LEMMA ClientForward ==
    ASSUME IInv, [Next]_vars, lxe', ~rushed
    PROVE  server' >= server /\ opwait' >= opwait
<1>2. TypeOK /\ EpochInv /\ SpawnInv /\ StoredInv /\ CalmInv /\ OrderInv
  BY DEF IInv
<1>3. CASE UNCHANGED <<server, opwait>> BY <1>2, <1>3, Types
<1>4. CASE Forget BY <1>4 DEF Forget
<1>5. ASSUME NEW w \in Workers, Stays(w), Others PROVE server' >= server /\ opwait' >= opwait
  <2>0. UNCHANGED lxd BY <1>5 DEF Others
  <2>1. worker[w].pc \in {"server", "opwait"} => w = spawned
    BY <1>2, <1>5, Types DEF CalmInv, Busy, SpawnInv
  <2>2. \A v \in Workers : v > spawned => worker[v].pc = "none" \/ v = 0
    BY <1>2 DEF SpawnInv
  <2>3. ASSUME worker[w].pc \in {"server", "opwait"}, NEW v \in Workers, v # w,
               worker[v].pc \in {"opwait", "done"}
        PROVE  worker[v].epoch < worker[w].epoch
    <3>1. w = spawned /\ worker[w].epoch > 0
      BY <1>2, <2>1, <2>3 DEF EpochInv, Connected
    <3>2. v < w \/ v = 0 BY <1>2, <2>2, <2>3, <3>1, Types
    <3>3. v < w BY <1>2, <2>3, <3>2, Types
    <3>4. QED BY <1>2, <3>1, <3>3 DEF OrderInv
  <2>4. server' >= server
    <3>1. CASE server' = server BY <1>2, <3>1, Types
    <3>2. CASE worker[w].pc = "server" /\ server' = worker[w].epoch
      BY <1>2, <2>3, <3>2, Types DEF StoredInv
    <3>3. QED BY <1>5, <3>1, <3>2 DEF Stays
  <2>5. opwait' >= opwait
    <3>1. CASE opwait' = opwait BY <1>2, <3>1, Types
    <3>2. CASE worker[w].pc = "opwait" /\ opwait' = worker[w].epoch
      BY <1>2, <2>3, <3>2, Types DEF StoredInv
    <3>3. QED BY <1>5, <3>1, <3>2 DEF Stays
  <2>6. QED BY <2>4, <2>5
<1>6. QED
  BY <1>3, <1>4, <1>5, NextCases, StartAfter, NewAfter, CreatedAfter, QuietAfter

\* However often LXD and lxe restart, the client in use moves only to later
\* starts of LXD, with the same exception.
THEOREM ReconnectClientMovesOn == Spec => ClientMovesOn
<1>1. IInv /\ [Next]_vars =>
        [lxe' /\ ~rushed => server' >= server /\ opwait' >= opwait]_vars
  BY ClientForward
<1>2. QED BY <1>1, Always, PTL DEF Spec, ClientMovesOn

-----------------------------------------------------------------------------
(* What is left to do until lxe is connected again.                          *)
Coming == \/ pending > 0
          \/ \E w \in Workers : \/ worker[w].pc \in {"dial", "events"}
                                \/ worker[w].pc \in Connected /\ worker[w].epoch = lxd.epoch

\* Somebody is on the way to the LXD that runs, or has been there.
ComingInv ==
    /\ lxe => worker[0].pc # "none"
    /\ lxe /\ lxd.st # "down" /\ ~missed => Coming

\* Whoever has stored its client has left that one or a later one.
LatestInv ==
    \A w \in Workers :
        /\ worker[w].pc \in {"opwait", "done"} => server >= worker[w].epoch
        /\ worker[w].pc = "done" => opwait >= worker[w].epoch

LEMMA ComingStep == ASSUME IInv, ComingInv, [Next]_vars PROVE ComingInv'
<1>0. TypeOK /\ EpochInv /\ SpawnInv /\ 0 \in Workers BY Types DEF IInv
<1>1. CASE LxdStart
  <2>1. UNCHANGED <<lxe, worker>> BY <1>1, StartAfter
  <2>2. CASE watch
    <3>1. pending' = pending + 1 BY <1>1, <2>2 DEF LxdStart
    <3>2. QED BY <1>0, <2>1, <3>1, Types DEF ComingInv, Coming
  <2>3. CASE ~watch
    <3>1. missed' = (missed \/ worker[0].epoch # 0) BY <1>1, <2>3, Zenon DEF LxdStart
    <3>2. lxe /\ worker[0].epoch = 0 => worker[0].pc \in {"dial", "events"}
      BY <1>0 DEF ComingInv, EpochInv, TypeOK, Worker, Connected
    <3>3. ~missed' => worker[0].epoch = 0 BY <3>1
    <3>4. QED BY <1>0, <2>1, <3>2, <3>3 DEF ComingInv, Coming
  <2>4. QED BY <1>0, <2>2, <2>3 DEF TypeOK
<1>2. CASE NewClient
  BY <1>2, NewAfter DEF ComingInv, Coming
<1>3. CASE SocketCreated
  <2>1. worker'[spawned + 1].pc = "dial" /\ spawned + 1 \in Workers BY <1>3, CreatedAfter
  <2>2. Coming' BY <2>1 DEF Coming
  <2>3. QED BY <1>0, <1>3, <2>2, CreatedAfter DEF ComingInv
<1>4. CASE Quiet
  BY <1>4, QuietAfter DEF ComingInv, Coming
<1>5. CASE Forget /\ exits' \in 0..MaxExits
  BY <1>5 DEF Forget, ComingInv
<1>6. ASSUME NEW w \in Workers, Stays(w), Others PROVE ComingInv'
  <2>1. UNCHANGED <<lxd, lxe, pending, missed>> BY <1>6 DEF Others, historyVars
  <2>2. worker'[0].pc # "none" \/ ~lxe
    BY <1>0, <1>6, <2>1, WorkerAfter DEF ComingInv
  <2>3. \/ worker'[w].pc \in {"dial", "events"}
        \/ worker'[w].pc \in Connected /\ worker'[w].epoch = lxd.epoch
        \/ /\ worker'[w].pc \in Connected /\ worker[w].pc \in Connected
           /\ worker'[w].epoch = worker[w].epoch
    BY <1>0, <1>6, <2>1, WorkerAfter DEF Connected, TypeOK, Worker
  <2>4. Coming => Coming'
    BY <1>0, <1>6, <2>1, <2>3, WorkerAfter DEF Coming, Connected
  <2>5. QED BY <2>1, <2>2, <2>4 DEF ComingInv
<1>7. QED BY <1>1, <1>2, <1>3, <1>4, <1>5, <1>6, NextCases

LEMMA LatestStep ==
    ASSUME IInv, IInv', ~rushed => LatestInv, [Next]_vars, ~rushed'
    PROVE  LatestInv'
<1>0. TypeOK /\ TypeOK' /\ EpochInv BY DEF IInv
<1>1. CASE LxdStart
  BY <1>1, StartAfter DEF LatestInv
<1>2. CASE NewClient
  BY <1>2, NewAfter DEF LatestInv, NoWorker
<1>3. CASE SocketCreated
  BY <1>3, CreatedAfter DEF LatestInv
<1>4. CASE Quiet
  BY <1>4, QuietAfter DEF LatestInv
<1>5. CASE Forget /\ exits' \in 0..MaxExits
  BY <1>5 DEF Forget, LatestInv, NoWorker
<1>6. ASSUME NEW w \in Workers, Stays(w), Others PROVE LatestInv'
  <2>1. UNCHANGED <<lxd, lxe, rushed>> /\ LatestInv BY <1>6 DEF Others, historyVars
  <2>2. lxe
    BY <1>0, <1>6, <2>1, WorkerAfter DEF IInv, SpawnInv, NoWorker
  <2>3. server' >= server /\ opwait' >= opwait
    BY <2>1, <2>2, ClientForward
  <2>4. /\ \A v \in Workers : v # w => worker'[v] = worker[v]
        /\ worker'[w].pc = "opwait" => worker'[w].epoch = server'
        /\ worker'[w].pc = "done" => /\ worker[w].pc = "opwait" /\ worker'[w].epoch = opwait'
                                     /\ worker'[w].epoch = worker[w].epoch
    BY <1>0, <1>6 DEF Stays, TypeOK, Worker
  <2>5. \A v \in Workers : worker[v].epoch \in Nat /\ worker'[v].epoch \in Nat
    BY <1>0, BoundsAssumption DEF TypeOK, Worker, Epochs
  <2>6. server \in Nat /\ server' \in Nat /\ opwait \in Nat /\ opwait' \in Nat
    BY <1>0, BoundsAssumption DEF TypeOK, Epochs
  <2>7. QED BY <2>1, <2>3, <2>4, <2>5, <2>6 DEF LatestInv
<1>7. QED BY <1>1, <1>2, <1>3, <1>4, <1>5, <1>6, NextCases

\* However often LXD and lxe restart, a lxe at rest listens to the LXD that
\* runs and, if LXD did not rush, uses clients connected to it.  It is the
\* safety part of ListenerArrives and ClientArrives: what is left to fairness
\* is that the goroutines come to rest.
THEOREM ReconnectRestIsConnected == Spec => []RestIsConnected
<1>1. Init => ComingInv /\ LatestInv
  BY DEF Init, ComingInv, LatestInv, NoWorker, Workers
<1>2. IInv /\ ComingInv /\ [Next]_vars => ComingInv'
  BY ComingStep
<1>3. IInv /\ IInv' /\ (~rushed => LatestInv) /\ [Next]_vars => (~rushed' => LatestInv')
  BY LatestStep
<1>4. IInv /\ ComingInv /\ (~rushed => LatestInv) => RestIsConnected
  <2>1. SUFFICES ASSUME IInv, ComingInv, ~rushed => LatestInv, lxe, lxd.st # "down", ~missed,
                        pending = 0, \A w \in Workers : ~Busy(w)
                 PROVE  /\ \E w \in Workers : Listens(w)
                        /\ rushed \/ (server = lxd.epoch /\ opwait = lxd.epoch)
    BY Zenon DEF RestIsConnected
  <2>2. PICK w \in Workers : worker[w].pc = "done" /\ worker[w].epoch = lxd.epoch
    BY <2>1 DEF ComingInv, Coming, Busy, Connected
  <2>3. Listens(w) BY <2>1, <2>2 DEF Listens
  <2>4. ASSUME ~rushed PROVE server = lxd.epoch /\ opwait = lxd.epoch
    <3>1. TypeOK /\ EpochInv /\ StoredInv /\ LatestInv BY <2>1, <2>4 DEF IInv
    <3>2. server >= lxd.epoch /\ opwait >= lxd.epoch BY <2>2, <3>1 DEF LatestInv
    <3>3. server <= lxd.epoch /\ opwait <= lxd.epoch
      BY <3>1, Types DEF StoredInv, EpochInv
    <3>4. QED BY <3>1, <3>2, <3>3, Types
  <2>5. QED BY <2>3, <2>4
<1>5. QED BY <1>1, <1>2, <1>3, <1>4, Initial, Inductive, PTL DEF Spec
=============================================================================
