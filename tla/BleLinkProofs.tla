--------------------------- MODULE BleLinkProofs ---------------------------
(***************************************************************************)
(* Theorems about BleLink, for every set of payloads and every bound: the  *)
(* types, the discipline of the two locks, how stale a keepalive can be    *)
(* and that the loop is woken when its link is torn down.                  *)
(***************************************************************************)
EXTENDS BleLink, SequenceTheorems, TLAPS

USE DEF Tasks, locks, health, payloads, world

\* Where a task may be suspended while it owns each lock, or waits for it.
ConnWaiting(p)  == pc[p] \in {"connWait", "discWait"}
WriteWaiting(p) == pc[p] \in {"resyncWait", "keepWait", "writeWait"}

\* Owners are inside the critical section, or about to enter it.
LockInv ==
    /\ \A p \in Tasks : InConn(p) => connOwner = p
    /\ \A p \in Tasks : InWrite(p) => writeOwner = p
    /\ \A p \in Tasks : connOwner = p => InConn(p) \/ ConnWaiting(p)
    /\ \A p \in Tasks : writeOwner = p => InWrite(p) \/ WriteWaiting(p)
    /\ connOwner = NoOne => \A p \in Tasks : ~ConnWaiting(p)
    /\ writeOwner = NoOne => \A p \in Tasks : ~WriteWaiting(p)

\* A send task in progress has a payload to send.
QueueInv == pc["send"] # "idle" => sendQ # <<>>

\* While a task owns _lock nobody else resets _client.
ClientInv == \A p \in Tasks : pc[p] = "announcing" => client # "none"

\* What the loop writes, and what it may be about to write.
ArgInv ==
    /\ pc["loop"] \in {"resyncWait", "keepWait"} => lastPayload # Empty
    /\ LoopWriting => /\ lastPayload # Empty
                      /\ arg # Empty
                      /\ arg \in {lastPayload, prevPayload}
                      /\ pc["send"] = "sent" => arg = lastPayload

\* PromptReconnect, from the moment the loop can next go to sleep.
WakeInv ==
    pc["loop"] \in {"sleep", "resyncing", "keeping"} /\ client = "none" => wake

IInv == TypeOK /\ LockInv /\ QueueInv /\ ClientInv /\ ArgInv /\ WakeInv

-----------------------------------------------------------------------------
\* A queue of payloads that is not empty has a payload at its head.
LEMMA HeadTail ==
    ASSUME NEW q \in Seq(Payloads), q # <<>>
    PROVE  Head(q) \in Payloads /\ Tail(q) \in Seq(Payloads)
  BY HeadTailProperties, ElementOfSeq, EmptySeq

\* A queue to which a payload is appended is one of payloads, and not empty.
LEMMA Appended ==
    ASSUME NEW q \in Seq(Payloads), NEW e \in Payloads
    PROVE  Append(q, e) \in Seq(Payloads) /\ Append(q, e) # <<>>
  BY AppendProperties, EmptySeq

\* The initial states satisfy the inductive invariant.
LEMMA InitIInv == Init => IInv
  <1> SUFFICES ASSUME Init PROVE IInv
    OBVIOUS
  <1> USE DEF Init
  <1>1. TypeOK
    <2>1. pc \in [Tasks -> LoopLabels \cup SendLabels]
      BY DEF LoopLabels, SendLabels
    <2>2. pc["loop"] \in LoopLabels /\ pc["send"] \in SendLabels
      BY DEF LoopLabels, SendLabels
    <2>3. streak \in 0 .. ResetAfter - 1 /\ pushes \in 0 .. MaxPushes
                                       /\ faults \in 0 .. MaxFaults
      BY BoundsAssumption
    <2>4. sendQ \in Seq(Payloads)
      BY EmptySeq
    <2> QED
      BY <2>1, <2>2, <2>3, <2>4, PayloadsAssumption
         DEF TypeOK, PcTypeOK, DataTypeOK, LinkTypeOK, PayloadTypeOK
  <1>2. LockInv
    BY NoOneAssumption DEF LockInv, InConn, InWrite, ConnWaiting, WriteWaiting
  <1>3. QueueInv /\ ClientInv /\ ArgInv /\ WakeInv
    BY DEF QueueInv, ClientInv, ArgInv, LoopWriting, WakeInv
  <1> QED
    BY <1>1, <1>2, <1>3 DEF IInv

\* The arguments with which WriteGranted occurs in Next.
WriteLabels == {<<"loop", "resyncWait", "resyncing">>,
                <<"loop", "keepWait", "keeping">>,
                <<"send", "writeWait", "writing">>}

\* The streak of failed connections stays below the limit.
LEMMA LoopFailedTyped ==
    ASSUME DataTypeOK, LoopFailed
    PROVE  streak' \in 0 .. ResetAfter - 1 /\ cooling' \in BOOLEAN
  <1>1. CASE streak + 1 < ResetAfter
    BY <1>1, BoundsAssumption DEF DataTypeOK, LinkTypeOK, LoopFailed
  <1>2. CASE ~(streak + 1 < ResetAfter)
    BY <1>2, BoundsAssumption DEF DataTypeOK, LinkTypeOK, LoopFailed
  <1> QED
    BY <1>1, <1>2

\* What AfterConnect writes.
LEMMA AfterConnectTyped ==
    ASSUME DataTypeOK, NEW p \in Tasks, AfterConnect(p)
    PROVE  /\ connEvent' \in BOOLEAN /\ streak' \in 0 .. ResetAfter - 1
           /\ writeOwner' \in Tasks \cup {NoOne}
           /\ arg' \in Payloads \cup {Empty}
  <1>1. streak' \in 0 .. ResetAfter - 1
    BY BoundsAssumption DEF DataTypeOK, LinkTypeOK, PayloadTypeOK, AfterConnect
  <1>2. /\ connEvent' \in BOOLEAN /\ writeOwner' \in Tasks \cup {NoOne}
        /\ arg' \in Payloads \cup {Empty}
    BY DEF DataTypeOK, LinkTypeOK, PayloadTypeOK, AfterConnect, EnterWrite
  <1> QED
    BY <1>1, <1>2

\* What a failed write writes: the payload in flight may have been displayed.
LEMMA WriteRaisesTyped ==
    ASSUME DataTypeOK, NEW p \in Tasks, NEW waiting, NEW writing,
           WriteRaises(p, waiting, writing),
           p = "send" => sendQ # <<>>,
           p = "loop" /\ pc[p] = writing => arg # Empty
    PROVE  /\ writeOwner' \in Tasks \cup {NoOne}
           /\ arg' \in Payloads \cup {Empty} /\ display' \in Payloads
           /\ faults' \in 0 .. MaxFaults
  <1>1. writeOwner' \in Tasks \cup {NoOne} /\ arg' \in Payloads \cup {Empty}
    BY DEF DataTypeOK, LinkTypeOK, PayloadTypeOK, WriteRaises, HandOver,
           WriteWaiters
  <1>2. display' \in Payloads
    BY HeadTail DEF DataTypeOK, LinkTypeOK, PayloadTypeOK, WriteRaises
  <1>3. faults' \in 0 .. MaxFaults
    BY BoundsAssumption DEF DataTypeOK, PayloadTypeOK, WriteRaises, Fault
  <1> QED
    BY <1>1, <1>2, <1>3

\* What disconnect() writes once it has _lock.
LEMMA TakeDisconnectTyped ==
    ASSUME DataTypeOK, NEW p \in Tasks, NEW ev \in BOOLEAN, TakeDisconnect(p, ev),
           p = "send" => sendQ # <<>>
    PROVE  /\ connOwner' \in Tasks \cup {NoOne}
           /\ client' \in {"none", "up", "dropped"}
           /\ connEvent' \in BOOLEAN /\ wake' \in BOOLEAN
           /\ sendQ' \in Seq(Payloads) /\ attempt' \in {0, 1}
  <1>1. connOwner' \in Tasks \cup {NoOne}
    BY DEF TakeDisconnect, HandOver, ConnWaiters
  <1>2. /\ client' \in {"none", "up", "dropped"}
        /\ connEvent' \in BOOLEAN /\ wake' \in BOOLEAN
    BY DEF DataTypeOK, LinkTypeOK, PayloadTypeOK, TakeDisconnect, CloseClient
  <1>3. sendQ' \in Seq(Payloads) /\ attempt' \in {0, 1}
    BY HeadTail
       DEF DataTypeOK, PayloadTypeOK, TakeDisconnect, AfterDisconnect, EndSend
  <1> QED
    BY <1>1, <1>2, <1>3

\* What disconnect() writes when it is called.
LEMMA EnterDisconnectTyped ==
    ASSUME DataTypeOK, NEW p \in Tasks, NEW ev \in BOOLEAN, EnterDisconnect(p, ev),
           p = "send" => sendQ # <<>>
    PROVE  /\ connOwner' \in Tasks \cup {NoOne}
           /\ client' \in {"none", "up", "dropped"}
           /\ connEvent' \in BOOLEAN /\ wake' \in BOOLEAN
           /\ sendQ' \in Seq(Payloads) /\ attempt' \in {0, 1}
  BY TakeDisconnectTyped
     DEF DataTypeOK, LinkTypeOK, PayloadTypeOK, EnterDisconnect, HandOver,
         ConnWaiters

-----------------------------------------------------------------------------
\* The loop takes _lock, or queues for it, with the event cleared.
LEMMA LoopReconnectStep ==
    ASSUME IInv, LoopReconnect
    PROVE  IInv'
  <1> USE DEF IInv, TypeOK, LoopReconnect, EnterConnect
  <1>1. PcTypeOK'
    BY DEF PcTypeOK, LoopLabels
  <1>2. DataTypeOK'
    <2>1. LinkTypeOK'
      BY DEF DataTypeOK, LinkTypeOK
    <2>2. PayloadTypeOK'
      BY DEF DataTypeOK, PayloadTypeOK
    <2> QED
      BY <2>1, <2>2 DEF DataTypeOK
  <1>3. LockInv'
    BY NoOneAssumption
       DEF PcTypeOK, LockInv, InConn, InWrite, ConnWaiting, WriteWaiting
  <1>4. QueueInv' /\ ClientInv'
    BY DEF PcTypeOK, QueueInv, ClientInv
  <1>5. ArgInv' /\ WakeInv'
    BY DEF PcTypeOK, ArgInv, LoopWriting, WakeInv
  <1> QED
    BY <1>1, <1>2, <1>3, <1>4, <1>5

\* The loop goes to sleep on a link that is up.
LEMMA LoopIdleStep ==
    ASSUME IInv, LoopIdle
    PROVE  IInv'
  <1> USE DEF IInv, TypeOK, LoopIdle, Released
  <1>1. PcTypeOK'
    BY DEF PcTypeOK, LoopLabels, SendLabels
  <1>2. DataTypeOK'
    <2>1. LinkTypeOK'
      BY DEF DataTypeOK, LinkTypeOK
    <2>2. PayloadTypeOK'
      BY DEF DataTypeOK, PayloadTypeOK
    <2> QED
      BY <2>1, <2>2 DEF DataTypeOK
  <1>3. LockInv'
    BY DEF PcTypeOK, LockInv, InConn, InWrite, ConnWaiting, WriteWaiting
  <1>4. QueueInv' /\ ClientInv'
    BY DEF PcTypeOK, QueueInv, ClientInv
  <1>5. ArgInv' /\ WakeInv'
    BY DEF PcTypeOK, ArgInv, LoopWriting, WakeInv
  <1> QED
    BY <1>1, <1>2, <1>3, <1>4, <1>5

\* The loop takes _write_lock for a keepalive, or queues for it.
LEMMA LoopKeepaliveStep ==
    ASSUME IInv, LoopKeepalive
    PROVE  IInv'
  <1> USE DEF IInv, TypeOK, LoopKeepalive, EnterWrite, Released
  <1>1. PcTypeOK'
    BY DEF PcTypeOK, LoopLabels, SendLabels
  <1>2. DataTypeOK'
    <2>1. LinkTypeOK'
      BY DEF DataTypeOK, LinkTypeOK
    <2>2. PayloadTypeOK'
      BY DEF DataTypeOK, PayloadTypeOK
    <2> QED
      BY <2>1, <2>2 DEF DataTypeOK
  <1>3. LockInv'
    BY NoOneAssumption
       DEF PcTypeOK, LockInv, InConn, InWrite, ConnWaiting, WriteWaiting
  <1>4. QueueInv' /\ ClientInv'
    BY DEF PcTypeOK, QueueInv, ClientInv
  <1>5. ArgInv' /\ WakeInv'
    BY DEF PcTypeOK, ArgInv, LoopWriting, WakeInv
  <1> QED
    BY <1>1, <1>2, <1>3, <1>4, <1>5

\* The loop wakes, and _wake is consumed.
LEMMA LoopAwakeStep ==
    ASSUME IInv, LoopAwake
    PROVE  IInv'
  <1> USE DEF IInv, TypeOK, LoopAwake
  <1>1. PcTypeOK'
    BY DEF PcTypeOK, LoopLabels
  <1>2. DataTypeOK'
    <2>1. LinkTypeOK'
      BY DEF DataTypeOK, LinkTypeOK
    <2>2. PayloadTypeOK'
      BY DEF DataTypeOK, PayloadTypeOK
    <2> QED
      BY <2>1, <2>2 DEF DataTypeOK
  <1>3. LockInv'
    BY DEF LockInv, InConn, InWrite, ConnWaiting, WriteWaiting
  <1>4. QueueInv' /\ ClientInv'
    BY DEF QueueInv, ClientInv
  <1>5. ArgInv' /\ WakeInv'
    BY DEF PcTypeOK, ArgInv, LoopWriting, WakeInv
  <1> QED
    BY <1>1, <1>2, <1>3, <1>4, <1>5

\* A task that waited for _lock in connect() gets it.
LEMMA ConnectGrantedStep ==
    ASSUME NEW p \in Tasks, IInv, ConnectGranted(p)
    PROVE  IInv'
  <1> USE DEF IInv, TypeOK, ConnectGranted, AfterConnect, EnterWrite, Released,
              HandOver, ConnWaiters, WriteWaiters
  <1>1. PcTypeOK'
    BY DEF PcTypeOK, LoopLabels, SendLabels
  <1>2. DataTypeOK'
    <2> HIDE DEF AfterConnect
    <2>1. LinkTypeOK'
      BY AfterConnectTyped DEF DataTypeOK, LinkTypeOK
    <2>2. PayloadTypeOK'
      BY AfterConnectTyped DEF DataTypeOK, PayloadTypeOK
    <2> QED
      BY <2>1, <2>2 DEF DataTypeOK
  <1>3. LockInv'
    BY NoOneAssumption
       DEF PcTypeOK, LockInv, InConn, InWrite, ConnWaiting, WriteWaiting
  <1>4. QueueInv' /\ ClientInv'
    BY DEF PcTypeOK, QueueInv, ClientInv
  <1>5. ArgInv' /\ WakeInv'
    BY DEF PcTypeOK, ArgInv, LoopWriting, WakeInv
  <1> QED
    BY <1>1, <1>2, <1>3, <1>4, <1>5

\* The link comes up and a push is queued.
LEMMA ConnectOkStep ==
    ASSUME NEW p \in Tasks, IInv, ConnectOk(p)
    PROVE  IInv'
  <1> USE DEF IInv, TypeOK, ConnectOk
  <1>1. PcTypeOK'
    BY DEF PcTypeOK, LoopLabels, SendLabels
  <1>2. DataTypeOK'
    <2>1. LinkTypeOK'
      BY DEF DataTypeOK, LinkTypeOK
    <2>2. PayloadTypeOK'
      BY DEF DataTypeOK, PayloadTypeOK
    <2> QED
      BY <2>1, <2>2 DEF DataTypeOK
  <1>3. LockInv'
    BY NoOneAssumption DEF LockInv, InConn, InWrite, WriteWaiting
  <1>4. QueueInv' /\ ClientInv'
    BY DEF QueueInv, ClientInv
  <1>5. ArgInv' /\ WakeInv'
    BY DEF ArgInv, LoopWriting, WakeInv
  <1> QED
    BY <1>1, <1>2, <1>3, <1>4, <1>5

\* connect() returns: _lock is handed over, and the task goes on to write.
LEMMA ConnectedStep ==
    ASSUME NEW p \in Tasks, IInv, Connected(p)
    PROVE  IInv'
  <1> USE DEF IInv, TypeOK, Connected, AfterConnect, EnterWrite, Released,
              HandOver, ConnWaiters, WriteWaiters
  <1>1. PcTypeOK'
    BY DEF PcTypeOK, LoopLabels, SendLabels
  <1>2. DataTypeOK'
    <2>1. LinkTypeOK'
      BY AfterConnectTyped DEF DataTypeOK, LinkTypeOK
    <2>2. PayloadTypeOK'
      BY AfterConnectTyped DEF DataTypeOK, PayloadTypeOK
    <2> QED
      BY <2>1, <2>2 DEF DataTypeOK
  <1>3. LockInv'
    BY NoOneAssumption
       DEF PcTypeOK, LockInv, InConn, InWrite, ConnWaiting, WriteWaiting
  <1>4. QueueInv' /\ ClientInv'
    BY DEF PcTypeOK, QueueInv, ClientInv
  <1>5. ArgInv' /\ WakeInv'
    BY DEF PcTypeOK, ClientInv, ArgInv, LoopWriting, WakeInv
  <1> QED
    BY <1>1, <1>2, <1>3, <1>4, <1>5

\* The loop fails to connect: _lock is handed over and the failure is counted.
LEMMA LoopConnectFailsStep ==
    ASSUME IInv, LoopConnectFails
    PROVE  IInv'
  <1> USE DEF IInv, TypeOK, LoopConnectFails, LoopFailed, HandOver,
              ConnWaiters, WriteWaiters
  <1>1. PcTypeOK'
    BY DEF PcTypeOK, LoopLabels
  <1>2. DataTypeOK'
    <2>1. LinkTypeOK'
      BY LoopFailedTyped DEF DataTypeOK, LinkTypeOK
    <2>2. PayloadTypeOK'
      BY LoopFailedTyped DEF DataTypeOK, PayloadTypeOK
    <2> QED
      BY <2>1, <2>2 DEF DataTypeOK
  <1>3. LockInv'
    BY NoOneAssumption
       DEF PcTypeOK, LockInv, InConn, InWrite, ConnWaiting, WriteWaiting
  <1>4. QueueInv' /\ ClientInv'
    BY DEF PcTypeOK, QueueInv, ClientInv
  <1>5. ArgInv' /\ WakeInv'
    BY DEF PcTypeOK, ArgInv, LoopWriting, WakeInv
  <1> QED
    BY <1>1, <1>2, <1>3, <1>4, <1>5

\* The sender fails to connect and enters disconnect(), which may have to wait
\* for the _lock it has just released.
LEMMA SendConnectFailsStep ==
    ASSUME IInv, SendConnectFails
    PROVE  IInv'
  <1> USE DEF IInv, TypeOK, SendConnectFails, EnterDisconnect, TakeDisconnect,
              CloseClient, AfterDisconnect, EndSend, HandOver, ConnWaiters,
              WriteWaiters
  <1>1. PcTypeOK'
    BY DEF PcTypeOK, SendLabels
  <1>2. DataTypeOK'
    <2>1. LinkTypeOK'
      BY EnterDisconnectTyped DEF DataTypeOK, LinkTypeOK, QueueInv
    <2>2. PayloadTypeOK'
      BY EnterDisconnectTyped DEF DataTypeOK, PayloadTypeOK, QueueInv
    <2> QED
      BY <2>1, <2>2 DEF DataTypeOK
  <1>3. LockInv'
    BY NoOneAssumption
       DEF PcTypeOK, LockInv, InConn, InWrite, ConnWaiting, WriteWaiting
  <1>4. QueueInv' /\ ClientInv'
    BY DEF PcTypeOK, QueueInv, ClientInv, LockInv, InConn
  <1>5. ArgInv' /\ WakeInv'
    BY DEF PcTypeOK, ArgInv, LoopWriting, WakeInv
  <1> QED
    BY <1>1, <1>2, <1>3, <1>4, <1>5

\* A task that waited for _write_lock begins its write; the loop reads the last
\* payload now.
LEMMA WriteGrantedStep ==
    ASSUME NEW p \in Tasks, NEW waiting, NEW writing,
           <<p, waiting, writing>> \in WriteLabels, IInv,
           WriteGranted(p, waiting, writing)
    PROVE  IInv'
  <1> USE DEF IInv, TypeOK, WriteGranted, WriteLabels
  <1>1. PcTypeOK'
    BY DEF PcTypeOK, LoopLabels, SendLabels
  <1>2. DataTypeOK'
    <2>1. LinkTypeOK'
      BY DEF DataTypeOK, LinkTypeOK
    <2>2. PayloadTypeOK'
      BY DEF DataTypeOK, PayloadTypeOK
    <2> QED
      BY <2>1, <2>2 DEF DataTypeOK
  <1>3. LockInv'
    BY DEF PcTypeOK, LockInv, InConn, InWrite, ConnWaiting
  <1>4. QueueInv' /\ ClientInv'
    BY DEF QueueInv, ClientInv
  <1>5. ArgInv' /\ WakeInv'
    BY DEF ArgInv, LoopWriting, WakeInv
  <1> QED
    BY <1>1, <1>2, <1>3, <1>4, <1>5

\* The resync succeeds and _write_lock is handed over.
LEMMA ResyncDoneStep ==
    ASSUME IInv, ResyncDone
    PROVE  IInv'
  <1> USE DEF IInv, TypeOK, ResyncDone, Released, HandOver, ConnWaiters,
              WriteWaiters
  <1>1. PcTypeOK'
    BY DEF PcTypeOK, LoopLabels, SendLabels
  <1>2. DataTypeOK'
    <2>1. LinkTypeOK'
      BY BoundsAssumption DEF DataTypeOK, LinkTypeOK, ArgInv, LoopWriting
    <2>2. PayloadTypeOK'
      BY BoundsAssumption DEF DataTypeOK, PayloadTypeOK, ArgInv, LoopWriting
    <2> QED
      BY <2>1, <2>2 DEF DataTypeOK
  <1>3. LockInv'
    BY NoOneAssumption
       DEF PcTypeOK, LockInv, InConn, InWrite, ConnWaiting, WriteWaiting
  <1>4. QueueInv' /\ ClientInv'
    BY DEF PcTypeOK, QueueInv, ClientInv
  <1>5. ArgInv' /\ WakeInv'
    BY DEF PcTypeOK, ArgInv, LoopWriting, WakeInv
  <1> QED
    BY <1>1, <1>2, <1>3, <1>4, <1>5

\* The resync fails and _write_lock is handed over.
LEMMA ResyncFailsStep ==
    ASSUME IInv, ResyncFails
    PROVE  IInv'
  <1> USE DEF IInv, TypeOK, ResyncFails, WriteRaises, Fault, LoopFailed,
              HandOver, ConnWaiters, WriteWaiters
  <1>1. PcTypeOK'
    BY DEF PcTypeOK, LoopLabels
  <1>2. DataTypeOK'
    <2>1. pc["loop"] = "resyncing" => arg # Empty
      BY DEF ArgInv, LoopWriting
    <2>2. LinkTypeOK'
      BY <2>1, WriteRaisesTyped, LoopFailedTyped DEF DataTypeOK, LinkTypeOK
    <2>3. PayloadTypeOK'
      BY <2>1, WriteRaisesTyped, LoopFailedTyped DEF DataTypeOK, PayloadTypeOK
    <2> QED
      BY <2>2, <2>3 DEF DataTypeOK
  <1>3. LockInv'
    BY DEF LockInv, InConn, ConnWaiting
  <1>4. QueueInv' /\ ClientInv'
    BY DEF PcTypeOK, QueueInv, ClientInv
  <1>5. ArgInv' /\ WakeInv'
    BY DEF PcTypeOK, ArgInv, LoopWriting, WakeInv
  <1> QED
    BY <1>1, <1>2, <1>3, <1>4, <1>5

\* The keepalive is written and _write_lock is handed over.
LEMMA KeepaliveDoneStep ==
    ASSUME IInv, KeepaliveDone
    PROVE  IInv'
  <1> USE DEF IInv, TypeOK, KeepaliveDone, Fault, HandOver, ConnWaiters,
              WriteWaiters
  <1>1. PcTypeOK'
    BY DEF PcTypeOK, LoopLabels
  <1>2. DataTypeOK'
    <2>1. LinkTypeOK'
      BY BoundsAssumption DEF DataTypeOK, LinkTypeOK, ArgInv, LoopWriting
    <2>2. PayloadTypeOK'
      BY BoundsAssumption DEF DataTypeOK, PayloadTypeOK, ArgInv, LoopWriting
    <2> QED
      BY <2>1, <2>2 DEF DataTypeOK
  <1>3. LockInv'
    BY NoOneAssumption
       DEF PcTypeOK, LockInv, InConn, InWrite, ConnWaiting, WriteWaiting
  <1>4. QueueInv' /\ ClientInv'
    BY DEF QueueInv, ClientInv
  <1>5. ArgInv' /\ WakeInv'
    BY DEF PcTypeOK, ArgInv, LoopWriting, WakeInv
  <1> QED
    BY <1>1, <1>2, <1>3, <1>4, <1>5

\* The keepalive fails: _write_lock is released before disconnect() asks for
\* _lock.
LEMMA KeepaliveFailsStep ==
    ASSUME IInv, KeepaliveFails
    PROVE  IInv'
  <1> USE DEF IInv, TypeOK, KeepaliveFails, WriteRaises, Fault,
              EnterDisconnect, TakeDisconnect, CloseClient, AfterDisconnect,
              EndSend, HandOver, ConnWaiters, WriteWaiters
  <1>1. PcTypeOK'
    BY DEF PcTypeOK, LoopLabels
  <1>2. DataTypeOK'
    <2>1. pc["loop"] = "keeping" => arg # Empty
      BY DEF ArgInv, LoopWriting
    <2>2. LinkTypeOK'
      BY <2>1, WriteRaisesTyped, EnterDisconnectTyped
         DEF DataTypeOK, LinkTypeOK
    <2>3. PayloadTypeOK'
      BY <2>1, WriteRaisesTyped, EnterDisconnectTyped
         DEF DataTypeOK, PayloadTypeOK
    <2> QED
      BY <2>2, <2>3 DEF DataTypeOK
  <1>3. LockInv'
    BY DEF LockInv, InConn, ConnWaiting
  <1>4. QueueInv' /\ ClientInv'
    BY DEF PcTypeOK, QueueInv, ClientInv, LockInv, InConn
  <1>5. ArgInv' /\ WakeInv'
    BY DEF PcTypeOK, ArgInv, LoopWriting, WakeInv
  <1> QED
    BY <1>1, <1>2, <1>3, <1>4, <1>5

\* The sender's write succeeds; its payload is not yet the last one.
LEMMA SendWrittenStep ==
    ASSUME IInv, SendWritten
    PROVE  IInv'
  <1> USE DEF IInv, TypeOK, SendWritten, HandOver, ConnWaiters, WriteWaiters
  <1>1. PcTypeOK'
    BY DEF PcTypeOK, SendLabels
  <1>2. DataTypeOK'
    <2>1. LinkTypeOK'
      BY DEF DataTypeOK, LinkTypeOK, QueueInv
    <2>2. PayloadTypeOK'
      BY DEF DataTypeOK, PayloadTypeOK, QueueInv
    <2> QED
      BY <2>1, <2>2 DEF DataTypeOK
  <1>3. LockInv'
    BY NoOneAssumption
       DEF PcTypeOK, LockInv, InConn, InWrite, ConnWaiting, WriteWaiting
  <1>4. QueueInv' /\ ClientInv'
    BY DEF QueueInv, ClientInv
  <1>5. ArgInv' /\ WakeInv'
    BY DEF LockInv, InWrite, ArgInv, LoopWriting, WakeInv
  <1> QED
    BY <1>1, <1>2, <1>3, <1>4, <1>5

\* The sender's write fails and _write_lock is handed over.
LEMMA SendRaisesStep ==
    ASSUME IInv, SendRaises
    PROVE  IInv'
  <1> USE DEF IInv, TypeOK, SendRaises, WriteRaises, Fault, HandOver,
              ConnWaiters, WriteWaiters
  <1>1. PcTypeOK'
    BY DEF PcTypeOK, SendLabels
  <1>2. DataTypeOK'
    <2>1. LinkTypeOK'
      BY BoundsAssumption DEF DataTypeOK, LinkTypeOK, QueueInv
    <2>2. PayloadTypeOK'
      BY BoundsAssumption DEF DataTypeOK, PayloadTypeOK, QueueInv
    <2> QED
      BY <2>1, <2>2 DEF DataTypeOK
  <1>3. LockInv'
    BY DEF LockInv, InConn, ConnWaiting
  <1>4. QueueInv' /\ ClientInv'
    BY DEF QueueInv, ClientInv
  <1>5. ArgInv' /\ WakeInv'
    BY DEF ArgInv, LoopWriting, WakeInv
  <1> QED
    BY <1>1, <1>2, <1>3, <1>4, <1>5

\* A send task begins.
LEMMA SendStartStep ==
    ASSUME IInv, SendStart
    PROVE  IInv'
  <1> USE DEF IInv, TypeOK, SendStart
  <1>1. PcTypeOK'
    BY DEF PcTypeOK, SendLabels
  <1>2. DataTypeOK'
    <2>1. LinkTypeOK'
      BY DEF DataTypeOK, LinkTypeOK
    <2>2. PayloadTypeOK'
      BY DEF DataTypeOK, PayloadTypeOK
    <2> QED
      BY <2>1, <2>2 DEF DataTypeOK
  <1>3. LockInv'
    BY DEF LockInv, InConn, InWrite, ConnWaiting, WriteWaiting
  <1>4. QueueInv' /\ ClientInv'
    BY DEF QueueInv, ClientInv
  <1>5. ArgInv' /\ WakeInv'
    BY DEF ArgInv, LoopWriting, WakeInv
  <1> QED
    BY <1>1, <1>2, <1>3, <1>4, <1>5

\* A send task gives up.
LEMMA SendTimeoutStep ==
    ASSUME IInv, SendTimeout
    PROVE  IInv'
  <1> USE DEF IInv, TypeOK, SendTimeout, EndSend
  <1>1. PcTypeOK'
    BY DEF PcTypeOK, SendLabels
  <1>2. DataTypeOK'
    <2>1. LinkTypeOK'
      BY DEF DataTypeOK, LinkTypeOK, QueueInv
    <2>2. PayloadTypeOK'
      BY DEF DataTypeOK, PayloadTypeOK, QueueInv
    <2> QED
      BY <2>1, <2>2 DEF DataTypeOK
  <1>3. LockInv'
    BY DEF LockInv, InConn, InWrite, ConnWaiting, WriteWaiting
  <1>4. QueueInv' /\ ClientInv'
    BY DEF PcTypeOK, QueueInv, ClientInv
  <1>5. ArgInv' /\ WakeInv'
    BY DEF ArgInv, LoopWriting, WakeInv
  <1> QED
    BY <1>1, <1>2, <1>3, <1>4, <1>5

\* send_payload takes the lock it needs first, or queues for it.
LEMMA SendAttemptStep ==
    ASSUME IInv, SendAttempt
    PROVE  IInv'
  <1> USE DEF IInv, TypeOK, SendAttempt, EnterWrite, EnterConnect
  <1>1. PcTypeOK'
    BY DEF PcTypeOK, SendLabels
  <1>2. DataTypeOK'
    <2>1. LinkTypeOK'
      BY DEF DataTypeOK, LinkTypeOK
    <2>2. PayloadTypeOK'
      BY DEF DataTypeOK, PayloadTypeOK
    <2> QED
      BY <2>1, <2>2 DEF DataTypeOK
  <1>3. LockInv'
    BY NoOneAssumption
       DEF PcTypeOK, LockInv, InConn, InWrite, ConnWaiting, WriteWaiting
  <1>4. QueueInv' /\ ClientInv'
    BY DEF PcTypeOK, QueueInv, ClientInv
  <1>5. ArgInv' /\ WakeInv'
    BY DEF PcTypeOK, ArgInv, LoopWriting, WakeInv
  <1> QED
    BY <1>1, <1>2, <1>3, <1>4, <1>5

\* The payload becomes the last one, and what the loop has in flight the one
\* before it.
LEMMA SendConfirmStep ==
    ASSUME IInv, SendConfirm
    PROVE  IInv'
  <1> USE DEF IInv, TypeOK, SendConfirm, EndSend
  <1>1. PcTypeOK'
    BY DEF PcTypeOK, SendLabels
  <1>2. DataTypeOK'
    <2>1. LinkTypeOK'
      BY DEF DataTypeOK, LinkTypeOK, QueueInv
    <2>2. PayloadTypeOK'
      BY DEF DataTypeOK, PayloadTypeOK, QueueInv
    <2> QED
      BY <2>1, <2>2 DEF DataTypeOK
  <1>3. LockInv'
    BY DEF LockInv, InConn, InWrite, ConnWaiting, WriteWaiting
  <1>4. QueueInv' /\ ClientInv'
    BY DEF PcTypeOK, QueueInv, ClientInv
  <1>5. ArgInv' /\ WakeInv'
    BY PayloadsAssumption
       DEF PcTypeOK, DataTypeOK, PayloadTypeOK, QueueInv, ArgInv, LoopWriting,
           WakeInv
  <1> QED
    BY <1>1, <1>2, <1>3, <1>4, <1>5

\* The sender enters disconnect() after a failed write.
LEMMA SendFailedStep ==
    ASSUME IInv, SendFailed
    PROVE  IInv'
  <1> USE DEF IInv, TypeOK, SendFailed, EnterDisconnect, TakeDisconnect,
              CloseClient, AfterDisconnect, EndSend, HandOver, ConnWaiters,
              WriteWaiters
  <1>1. PcTypeOK'
    BY DEF PcTypeOK, SendLabels
  <1>2. DataTypeOK'
    <2>1. LinkTypeOK'
      BY EnterDisconnectTyped DEF DataTypeOK, LinkTypeOK, QueueInv
    <2>2. PayloadTypeOK'
      BY EnterDisconnectTyped DEF DataTypeOK, PayloadTypeOK, QueueInv
    <2> QED
      BY <2>1, <2>2 DEF DataTypeOK
  <1>3. LockInv'
    BY NoOneAssumption
       DEF PcTypeOK, LockInv, InConn, InWrite, ConnWaiting, WriteWaiting
  <1>4. QueueInv' /\ ClientInv'
    BY NoOneAssumption DEF PcTypeOK, QueueInv, ClientInv, LockInv, InConn
  <1>5. ArgInv' /\ WakeInv'
    BY DEF PcTypeOK, ArgInv, LoopWriting, WakeInv
  <1> QED
    BY <1>1, <1>2, <1>3, <1>4, <1>5

\* A task that waited for _lock in disconnect() gets it.
LEMMA DisconnectGrantedStep ==
    ASSUME NEW p \in Tasks, IInv, DisconnectGranted(p)
    PROVE  IInv'
  <1> USE DEF IInv, TypeOK, DisconnectGranted, EnterDisconnect, TakeDisconnect,
              CloseClient, AfterDisconnect, EndSend, HandOver, ConnWaiters,
              WriteWaiters
  <1>1. PcTypeOK'
    BY DEF PcTypeOK, LoopLabels, SendLabels
  <1>2. DataTypeOK'
    <2> HIDE DEF TakeDisconnect
    <2>1. connEvent \in BOOLEAN
      BY DEF DataTypeOK, LinkTypeOK
    <2>2. LinkTypeOK'
      BY <2>1, TakeDisconnectTyped DEF DataTypeOK, LinkTypeOK, QueueInv
    <2>3. PayloadTypeOK'
      BY <2>1, TakeDisconnectTyped DEF DataTypeOK, PayloadTypeOK, QueueInv
    <2> QED
      BY <2>2, <2>3 DEF DataTypeOK
  <1>3. LockInv'
    BY NoOneAssumption
       DEF PcTypeOK, LockInv, InConn, InWrite, ConnWaiting, WriteWaiting
  <1>4. QueueInv' /\ ClientInv'
    BY DEF PcTypeOK, QueueInv, ClientInv, LockInv, InConn
  <1>5. ArgInv' /\ WakeInv'
    BY DEF PcTypeOK, ArgInv, LoopWriting, WakeInv
  <1> QED
    BY <1>1, <1>2, <1>3, <1>4, <1>5

\* disconnect() returns: the client is gone and the loop is woken.
LEMMA DisconnectedStep ==
    ASSUME NEW p \in Tasks, IInv, Disconnected(p)
    PROVE  IInv'
  <1> USE DEF IInv, TypeOK, Disconnected, EnterDisconnect, TakeDisconnect,
              CloseClient, AfterDisconnect, EndSend, HandOver, ConnWaiters,
              WriteWaiters
  <1>1. PcTypeOK'
    BY DEF PcTypeOK, LoopLabels, SendLabels
  <1>2. DataTypeOK'
    <2>1. LinkTypeOK'
      BY HeadTail DEF DataTypeOK, LinkTypeOK, QueueInv
    <2>2. PayloadTypeOK'
      BY HeadTail DEF DataTypeOK, PayloadTypeOK, QueueInv
    <2> QED
      BY <2>1, <2>2 DEF DataTypeOK
  <1>3. LockInv'
    BY NoOneAssumption
       DEF PcTypeOK, LockInv, InConn, InWrite, ConnWaiting, WriteWaiting
  <1>4. QueueInv' /\ ClientInv'
    BY DEF PcTypeOK, QueueInv, ClientInv, LockInv, InConn
  <1>5. ArgInv' /\ WakeInv'
    BY DEF PcTypeOK, ArgInv, LoopWriting, WakeInv
  <1> QED
    BY <1>1, <1>2, <1>3, <1>4, <1>5

\* disconnect() raises: the client is gone and the loop is woken all the same.
LEMMA DisconnectFailsStep ==
    ASSUME NEW p \in Tasks, IInv, DisconnectFails(p)
    PROVE  IInv'
  <1> USE DEF IInv, TypeOK, DisconnectFails, EnterDisconnect, TakeDisconnect,
              CloseClient, AfterDisconnect, EndSend, HandOver, ConnWaiters,
              WriteWaiters
  <1>1. PcTypeOK'
    BY DEF PcTypeOK, LoopLabels, SendLabels
  <1>2. DataTypeOK'
    <2>1. LinkTypeOK'
      BY HeadTail DEF DataTypeOK, LinkTypeOK, QueueInv
    <2>2. PayloadTypeOK'
      BY HeadTail DEF DataTypeOK, PayloadTypeOK, QueueInv
    <2> QED
      BY <2>1, <2>2 DEF DataTypeOK
  <1>3. LockInv'
    BY NoOneAssumption
       DEF PcTypeOK, LockInv, InConn, InWrite, ConnWaiting, WriteWaiting
  <1>4. QueueInv' /\ ClientInv'
    BY DEF PcTypeOK, QueueInv, ClientInv, LockInv, InConn
  <1>5. ArgInv' /\ WakeInv'
    BY DEF PcTypeOK, ArgInv, LoopWriting, WakeInv
  <1> QED
    BY <1>1, <1>2, <1>3, <1>4, <1>5

\* The link is lost.
LEMMA LinkDropStep ==
    ASSUME IInv, LinkDrop
    PROVE  IInv'
  <1> USE DEF IInv, TypeOK, LinkDrop
  <1>1. PcTypeOK'
    BY DEF PcTypeOK
  <1>2. DataTypeOK'
    <2>1. LinkTypeOK'
      BY BoundsAssumption DEF DataTypeOK, LinkTypeOK
    <2>2. PayloadTypeOK'
      BY BoundsAssumption DEF DataTypeOK, PayloadTypeOK
    <2> QED
      BY <2>1, <2>2 DEF DataTypeOK
  <1>3. LockInv'
    BY DEF LockInv, InConn, InWrite, ConnWaiting, WriteWaiting
  <1>4. QueueInv' /\ ClientInv'
    BY DEF QueueInv, ClientInv
  <1>5. ArgInv' /\ WakeInv'
    BY DEF ArgInv, LoopWriting, WakeInv
  <1> QED
    BY <1>1, <1>2, <1>3, <1>4, <1>5

\* The keepalive interval passes.
LEMMA KeepaliveDueStep ==
    ASSUME IInv, KeepaliveDue
    PROVE  IInv'
  <1> USE DEF IInv, TypeOK, KeepaliveDue
  <1>1. PcTypeOK'
    BY DEF PcTypeOK
  <1>2. DataTypeOK'
    <2>1. LinkTypeOK'
      BY DEF DataTypeOK, LinkTypeOK
    <2>2. PayloadTypeOK'
      BY DEF DataTypeOK, PayloadTypeOK
    <2> QED
      BY <2>1, <2>2 DEF DataTypeOK
  <1>3. LockInv'
    BY DEF LockInv, InConn, InWrite, ConnWaiting, WriteWaiting
  <1>4. QueueInv' /\ ClientInv'
    BY DEF QueueInv, ClientInv
  <1>5. ArgInv' /\ WakeInv'
    BY DEF ArgInv, LoopWriting, WakeInv
  <1> QED
    BY <1>1, <1>2, <1>3, <1>4, <1>5

\* The cooldown passes.
LEMMA CooldownOverStep ==
    ASSUME IInv, CooldownOver
    PROVE  IInv'
  <1> USE DEF IInv, TypeOK, CooldownOver
  <1>1. PcTypeOK'
    BY DEF PcTypeOK
  <1>2. DataTypeOK'
    <2>1. LinkTypeOK'
      BY DEF DataTypeOK, LinkTypeOK
    <2>2. PayloadTypeOK'
      BY DEF DataTypeOK, PayloadTypeOK
    <2> QED
      BY <2>1, <2>2 DEF DataTypeOK
  <1>3. LockInv'
    BY DEF LockInv, InConn, InWrite, ConnWaiting, WriteWaiting
  <1>4. QueueInv' /\ ClientInv'
    BY DEF QueueInv, ClientInv
  <1>5. ArgInv' /\ WakeInv'
    BY DEF ArgInv, LoopWriting, WakeInv
  <1> QED
    BY <1>1, <1>2, <1>3, <1>4, <1>5

\* The Bluetooth reset ends.
LEMMA BtResetDoneStep ==
    ASSUME IInv, BtResetDone
    PROVE  IInv'
  <1> USE DEF IInv, TypeOK, BtResetDone
  <1>1. PcTypeOK'
    BY DEF PcTypeOK, LoopLabels
  <1>2. DataTypeOK'
    <2>1. LinkTypeOK'
      BY DEF DataTypeOK, LinkTypeOK
    <2>2. PayloadTypeOK'
      BY DEF DataTypeOK, PayloadTypeOK
    <2> QED
      BY <2>1, <2>2 DEF DataTypeOK
  <1>3. LockInv'
    BY DEF LockInv, InConn, InWrite, ConnWaiting, WriteWaiting
  <1>4. QueueInv' /\ ClientInv'
    BY DEF QueueInv, ClientInv
  <1>5. ArgInv' /\ WakeInv'
    BY DEF ArgInv, LoopWriting, WakeInv
  <1> QED
    BY <1>1, <1>2, <1>3, <1>4, <1>5

\* A payload is queued.
LEMMA PushStep ==
    ASSUME NEW d \in Payloads, IInv, Push(d)
    PROVE  IInv'
  <1> USE DEF IInv, TypeOK, Push
  <1>1. PcTypeOK'
    BY DEF PcTypeOK
  <1>2. DataTypeOK'
    <2>1. LinkTypeOK'
      BY BoundsAssumption DEF DataTypeOK, LinkTypeOK
    <2>2. PayloadTypeOK'
      BY BoundsAssumption DEF DataTypeOK, PayloadTypeOK
    <2> QED
      BY <2>1, <2>2 DEF DataTypeOK
  <1>3. LockInv'
    BY DEF LockInv, InConn, InWrite, ConnWaiting, WriteWaiting
  <1>4. QueueInv' /\ ClientInv'
    BY DEF QueueInv, ClientInv
  <1>5. ArgInv' /\ WakeInv'
    BY DEF ArgInv, LoopWriting, WakeInv
  <1> QED
    BY <1>1, <1>2, <1>3, <1>4, <1>5

\* The current payload is queued again.
LEMMA HeartbeatStep ==
    ASSUME IInv, Heartbeat
    PROVE  IInv'
  <1> USE DEF IInv, TypeOK, Heartbeat
  <1>1. PcTypeOK'
    BY DEF PcTypeOK
  <1>2. DataTypeOK'
    <2>1. LinkTypeOK'
      BY DEF DataTypeOK, LinkTypeOK
    <2>2. PayloadTypeOK'
      BY DEF DataTypeOK, PayloadTypeOK
    <2> QED
      BY <2>1, <2>2 DEF DataTypeOK
  <1>3. LockInv'
    BY DEF LockInv, InConn, InWrite, ConnWaiting, WriteWaiting
  <1>4. QueueInv' /\ ClientInv'
    BY DEF QueueInv, ClientInv
  <1>5. ArgInv' /\ WakeInv'
    BY DEF ArgInv, LoopWriting, WakeInv
  <1> QED
    BY <1>1, <1>2, <1>3, <1>4, <1>5

-----------------------------------------------------------------------------
\* No step breaks the inductive invariant.
LEMMA NextIInv == IInv /\ [Next]_vars => IInv'
  <1> SUFFICES ASSUME IInv, [Next]_vars PROVE IInv'
    OBVIOUS
  <1>1. CASE LoopStep
    <2>1. /\ <<"loop", "resyncWait", "resyncing">> \in WriteLabels
          /\ <<"loop", "keepWait", "keeping">> \in WriteLabels
      BY DEF WriteLabels
    <2> QED
      BY <1>1, <2>1, LoopReconnectStep, LoopIdleStep, LoopKeepaliveStep,
         LoopAwakeStep, WriteGrantedStep, ResyncDoneStep, ResyncFailsStep,
         KeepaliveDoneStep, KeepaliveFailsStep, LoopConnectFailsStep,
         BtResetDoneStep DEF LoopStep
  <1>2. CASE SendStep
    <2>1. <<"send", "writeWait", "writing">> \in WriteLabels
      BY DEF WriteLabels
    <2> QED
      BY <1>2, <2>1, SendStartStep, SendAttemptStep, SendWrittenStep,
         SendRaisesStep, SendConfirmStep, WriteGrantedStep, SendFailedStep,
         SendConnectFailsStep, SendTimeoutStep DEF SendStep
  <1>3. ASSUME NEW p \in Tasks, LinkStep(p) PROVE IInv'
    BY <1>3, ConnectGrantedStep, ConnectOkStep, ConnectedStep,
       DisconnectGrantedStep, DisconnectedStep, DisconnectFailsStep DEF LinkStep
  <1>4. CASE LinkDrop \/ KeepaliveDue \/ CooldownOver \/ Heartbeat
    BY <1>4, LinkDropStep, KeepaliveDueStep, CooldownOverStep, HeartbeatStep
  <1>5. ASSUME NEW d \in Payloads, Push(d) PROVE IInv'
    BY <1>5, PushStep
  <1>6. CASE UNCHANGED vars
    BY <1>6
       DEF vars, IInv, TypeOK, PcTypeOK, DataTypeOK, LinkTypeOK,
                PayloadTypeOK, LockInv, InConn, InWrite,
                ConnWaiting, WriteWaiting, QueueInv, ClientInv, ArgInv,
                LoopWriting, WakeInv
  <1> QED
    BY <1>1, <1>2, <1>3, <1>4, <1>5, <1>6 DEF Next

\* IInv is an invariant.
THEOREM Inductive == Spec => []IInv
  BY InitIInv, NextIInv, PTL DEF Spec

\* Every variable keeps its type, in every behaviour.
THEOREM TypeCorrect == Spec => []TypeOK
  <1>1. IInv => TypeOK
    BY DEF IInv
  <1> QED
    BY <1>1, Inductive, PTL

\* The two locks of BleClient are held by whoever is in their critical section,
\* are never free while somebody waits, and are never both held by one task.
THEOREM LocksDisciplined == Spec => []LockDiscipline
  <1>1. IInv => LockDiscipline
    BY NoOneAssumption
       DEF IInv, TypeOK, PcTypeOK, LockInv, LockDiscipline, InConn, InWrite,
           ConnWaiting, WriteWaiting, ConnWaiters, WriteWaiters
  <1> QED
    BY <1>1, Inductive, PTL

\* The loop writes the last payload confirmed, or the one before it.
THEOREM BoundedStaleness == Spec => []StaleByAtMostOne
  <1>1. IInv => StaleByAtMostOne
    BY DEF IInv, ArgInv, StaleByAtMostOne, LoopWriting
  <1> QED
    BY <1>1, Inductive, PTL

\* A loop asleep on a link that disconnect() closed has been woken.
THEOREM Reconnects == Spec => []PromptReconnect
  <1>1. IInv => PromptReconnect
    BY DEF IInv, WakeInv, PromptReconnect
  <1> QED
    BY <1>1, Inductive, PTL

-----------------------------------------------------------------------------
(* The link implements DisplayRegister                                       *)

\* While the send task stays where it is with respect to SendWritten, a step that touches
\* no payload changes nothing of the register.
LEMMA RegisterKept ==
    ASSUME (pc'["send"] = "sent") <=> (pc["send"] = "sent"),
           UNCHANGED <<payloads, sendQ, target, display>>
    PROVE  UNCHANGED Register!vars
  BY DEF Register!vars, Written, Newest

\* A step that puts into the display, at most, what the loop has in flight.
LEMMA RegisterRepeats ==
    ASSUME IInv, pc["loop"] \in {"resyncing", "keeping"}, display' \in {display, arg},
           (pc'["send"] = "sent") <=> (pc["send"] = "sent"),
           UNCHANGED <<payloads, sendQ, target>>
    PROVE  [Register!Next]_(Register!vars)
  <1>1. arg \in {lastPayload, prevPayload} /\ arg # Empty
        /\ (pc["send"] = "sent" => arg = lastPayload)
    BY DEF IInv, ArgInv, LoopWriting
  <1>2. CASE display' = display
    BY <1>2, RegisterKept
  <1>3. CASE display' = arg
    <2>1. Register!Repeat
      BY <1>1, <1>3 DEF Register!Repeat, Written, Newest
    <2> QED
      BY <2>1 DEF Register!Next
  <1> QED
    BY <1>2, <1>3

\* The send task ends without having written.
LEMMA RegisterGivesUp ==
    ASSUME sendQ # <<>>, pc["send"] # "sent", pc'["send"] # "sent", sendQ' = Tail(sendQ),
           UNCHANGED <<payloads, target, display>>
    PROVE  Register!Next
  <1>1. Register!GiveUp
    BY DEF Register!GiveUp, Written, Newest
  <1> QED
    BY <1>1 DEF Register!Next

\* disconnect() touches no payload, but that the send task may end with it.
LEMMA RegisterDisconnects ==
    ASSUME IInv, NEW p \in Tasks, pc["send"] # "sent" \/ p = "loop",
           p = "send" => pc["send"] # "idle",
           \/ \E ev \in BOOLEAN : EnterDisconnect(p, ev) \/ TakeDisconnect(p, ev)
           \/ AfterDisconnect(p),
           UNCHANGED <<payloads, target, display>>
    PROVE  [Register!Next]_(Register!vars)
  <1>1. /\ (pc'["send"] = "sent") <=> (pc["send"] = "sent")
        /\ UNCHANGED sendQ \/ (p = "send" /\ sendQ' = Tail(sendQ))
    BY DEF EnterDisconnect, TakeDisconnect, AfterDisconnect, EndSend, IInv, TypeOK, PcTypeOK
  <1>2. CASE UNCHANGED sendQ
    BY <1>1, <1>2, RegisterKept
  <1>3. CASE p = "send" /\ sendQ' = Tail(sendQ)
    BY <1>1, <1>3, RegisterGivesUp DEF IInv, QueueInv
  <1> QED
    BY <1>1, <1>2, <1>3

\* A payload joins the end of the queue, also while the head has been written already.
LEMMA RegisterQueues ==
    ASSUME IInv, NEW v \in Payloads, sendQ' = Append(sendQ, v), target' = v,
           (pc'["send"] = "sent") <=> (pc["send"] = "sent"),
           UNCHANGED <<payloads, display>>
    PROVE  Register!Next
  <1>1. sendQ \in Seq(Payloads) /\ (pc["send"] = "sent" => sendQ # <<>>)
    BY DEF IInv, TypeOK, DataTypeOK, PayloadTypeOK, QueueInv
  <1>2. sendQ # <<>> => /\ Head(Append(sendQ, v)) = Head(sendQ)
                        /\ Tail(Append(sendQ, v)) = Append(Tail(sendQ), v)
    BY <1>1
  <1>3. Register!Want(v)
    BY <1>1, <1>2 DEF Register!Want, Written, Newest
  <1> QED
    BY <1>3 DEF Register!Next

LEMMA LoopImplements ==
    ASSUME IInv, LoopStep
    PROVE  [Register!Next]_(Register!vars)
  <1> USE DEF IInv, TypeOK, PcTypeOK
  <1>1. CASE \/ LoopReconnect \/ LoopIdle \/ LoopKeepalive \/ LoopAwake
             \/ LoopConnectFails \/ BtResetDone
             \/ WriteGranted("loop", "resyncWait", "resyncing")
             \/ WriteGranted("loop", "keepWait", "keeping")
    <2>1. /\ (pc'["send"] = "sent") <=> (pc["send"] = "sent")
          /\ UNCHANGED <<payloads, sendQ, target, display>>
      BY <1>1 DEF LoopReconnect, LoopIdle, LoopKeepalive, LoopAwake, LoopConnectFails,
                  LoopFailed, BtResetDone, WriteGranted, EnterConnect, EnterWrite, Released
    <2> QED
      BY <2>1, RegisterKept
  <1>2. CASE ResyncDone \/ KeepaliveDone
    <2>1. /\ pc["loop"] \in {"resyncing", "keeping"} /\ display' \in {display, arg}
          /\ (pc'["send"] = "sent") <=> (pc["send"] = "sent")
          /\ UNCHANGED <<payloads, sendQ, target>>
      BY <1>2 DEF ResyncDone, KeepaliveDone, Released
    <2> QED
      BY <2>1, RegisterRepeats
  <1>3. CASE ResyncFails
    <2>1. /\ (pc'["send"] = "sent") <=> (pc["send"] = "sent")
          /\ UNCHANGED <<payloads, sendQ, target>>
          /\ \/ UNCHANGED display
             \/ pc["loop"] = "resyncing" /\ display' \in {display, arg}
      BY <1>3 DEF ResyncFails, WriteRaises, LoopFailed
    <2> QED
      BY <2>1, RegisterKept, RegisterRepeats
  <1>4. CASE KeepaliveFails
    <2>1. /\ (pc'["send"] = "sent") <=> (pc["send"] = "sent")
          /\ UNCHANGED <<payloads, sendQ, target>>
      BY <1>4 DEF KeepaliveFails, EnterDisconnect, TakeDisconnect, AfterDisconnect
    <2>2. \/ UNCHANGED display
          \/ pc["loop"] = "keeping" /\ display' \in {display, arg}
      BY <1>4 DEF KeepaliveFails, WriteRaises
    <2> QED
      BY <2>1, <2>2, RegisterKept, RegisterRepeats
  <1> QED
    BY <1>1, <1>2, <1>3, <1>4 DEF LoopStep

LEMMA SendImplements ==
    ASSUME IInv, SendStep
    PROVE  [Register!Next]_(Register!vars)
  <1> USE DEF IInv, TypeOK, PcTypeOK
  <1>1. CASE SendStart \/ SendAttempt \/ WriteGranted("send", "writeWait", "writing")
    <2>1. /\ (pc'["send"] = "sent") <=> (pc["send"] = "sent")
          /\ UNCHANGED <<payloads, sendQ, target, display>>
      BY <1>1 DEF SendStart, SendAttempt, WriteGranted, EnterConnect, EnterWrite
    <2> QED
      BY <2>1, RegisterKept
  <1>2. CASE SendWritten
    <2>1. sendQ # <<>> /\ pc["send"] = "writing" /\ pc'["send"] = "sent"
      BY <1>2 DEF SendWritten, QueueInv
    <2>2. display' = Head(sendQ) /\ UNCHANGED <<payloads, sendQ, target>>
      BY <1>2 DEF SendWritten
    <2>3. Register!Write
      BY <2>1, <2>2 DEF Register!Write, Written, Newest
    <2> QED
      BY <2>3 DEF Register!Next
  <1>3. CASE SendRaises
    <2>1. /\ sendQ # <<>> /\ pc["send"] # "sent" /\ pc'["send"] # "sent"
          /\ UNCHANGED <<payloads, sendQ, target>> /\ display' \in {display, Head(sendQ)}
      BY <1>3 DEF SendRaises, WriteRaises, QueueInv
    <2>2. CASE display' = display
      BY <2>1, <2>2, RegisterKept
    <2>3. CASE display' = Head(sendQ)
      <3>1. Register!Try
        BY <2>1, <2>3 DEF Register!Try, Written, Newest
      <3> QED
        BY <3>1 DEF Register!Next
    <2> QED
      BY <2>1, <2>2, <2>3
  <1>4. CASE SendConfirm
    <2>1. /\ pc["send"] = "sent" /\ pc'["send"] = "idle" /\ sendQ' = Tail(sendQ)
          /\ lastPayload' = Head(sendQ) /\ prevPayload' = lastPayload
          /\ UNCHANGED <<target, display>>
      BY <1>4 DEF SendConfirm, EndSend
    <2> QED
      BY <2>1 DEF Register!vars, Written, Newest
  <1>5. CASE SendFailed \/ SendConnectFails
    BY <1>5, RegisterDisconnects DEF SendFailed, SendConnectFails
  <1>6. CASE SendTimeout
    BY <1>6, RegisterGivesUp DEF SendTimeout, EndSend, QueueInv
  <1> QED
    BY <1>1, <1>2, <1>3, <1>4, <1>5, <1>6 DEF SendStep

LEMMA LinkImplements ==
    ASSUME IInv, NEW p \in Tasks, LinkStep(p)
    PROVE  [Register!Next]_(Register!vars)
  <1> USE DEF IInv, TypeOK, PcTypeOK
  <1>1. CASE ConnectGranted(p) \/ Connected(p)
    <2>1. /\ (pc'["send"] = "sent") <=> (pc["send"] = "sent")
          /\ UNCHANGED <<payloads, sendQ, target, display>>
      BY <1>1 DEF ConnectGranted, Connected, AfterConnect, EnterWrite, Released
    <2> QED
      BY <2>1, RegisterKept
  <1>2. CASE ConnectOk(p)
    <2>1. /\ (pc'["send"] = "sent") <=> (pc["send"] = "sent")
          /\ UNCHANGED <<payloads, target, display>>
          /\ UNCHANGED sendQ \/ sendQ' = Append(sendQ, target)
      BY <1>2 DEF ConnectOk
    <2>2. target \in Payloads
      BY DEF DataTypeOK, PayloadTypeOK
    <2> QED
      BY <2>1, <2>2, RegisterKept, RegisterQueues
  <1>3. CASE DisconnectGranted(p)
    <2>1. connEvent \in BOOLEAN
      BY DEF DataTypeOK, LinkTypeOK
    <2> QED
      BY <1>3, <2>1, RegisterDisconnects DEF DisconnectGranted
  <1>4. CASE Disconnected(p)
    BY <1>4, RegisterDisconnects DEF Disconnected
  <1>5. CASE DisconnectFails(p)
    <2>1. /\ pc[p] = "disconnecting" /\ UNCHANGED <<payloads, target, display>>
          /\ \/ p = "loop" /\ UNCHANGED sendQ /\ pc'["send"] = pc["send"]
             \/ p = "send" /\ sendQ' = Tail(sendQ) /\ pc'["send"] = "idle"
      BY <1>5 DEF DisconnectFails, EndSend
    <2> QED
      BY <2>1, RegisterKept, RegisterGivesUp DEF QueueInv
  <1> QED
    BY <1>1, <1>2, <1>3, <1>4, <1>5 DEF LinkStep

\* Every step of the link is a step of the register, or changes nothing of it.
LEMMA RegisterStep == IInv /\ [Next]_vars => [Register!Next]_(Register!vars)
  <1> SUFFICES ASSUME IInv, [Next]_vars PROVE [Register!Next]_(Register!vars)
    OBVIOUS
  <1>1. CASE LoopStep
    BY <1>1, LoopImplements
  <1>2. CASE SendStep
    BY <1>2, SendImplements
  <1>3. ASSUME NEW p \in Tasks, LinkStep(p) PROVE [Register!Next]_(Register!vars)
    BY <1>3, LinkImplements
  <1>4. CASE LinkDrop \/ KeepaliveDue \/ CooldownOver \/ UNCHANGED vars
    BY <1>4, RegisterKept DEF LinkDrop, KeepaliveDue, CooldownOver, vars
  <1>5. CASE Heartbeat
    <2>1. target \in Payloads
      BY DEF IInv, TypeOK, DataTypeOK, PayloadTypeOK
    <2> QED
      BY <1>5, <2>1, RegisterQueues DEF Heartbeat
  <1>6. ASSUME NEW v \in Payloads, Push(v) PROVE [Register!Next]_(Register!vars)
    BY <1>6, RegisterQueues DEF Push
  <1> QED
    BY <1>1, <1>2, <1>3, <1>4, <1>5, <1>6 DEF Next

\* BleLink implements the safety of DisplayRegister: the display shows what was queued, in
\* that order, and what is repeated is at most one payload old (ble/client.py).
THEOREM ImplementsRegister == Spec => Register!Spec
  <1>1. Init => Register!Init
    BY PayloadsAssumption DEF Init, Register!Init, Written, Newest
  <1> QED
    BY <1>1, Inductive, RegisterStep, PTL DEF Spec, Register!Spec

-----------------------------------------------------------------------------
(* The queue of send tasks                                                   *)

\* The last payload in the queue is the current state's: a push at MaxQueue, which adds
\* none, would have added a second task for the state that the last one carries.
LastIsCurrent == sendQ # <<>> => sendQ[Len(sendQ)] = target

\* What a step makes of the queue: a task joins with the current state, or one ends.
LEMMA QueueSteps ==
    ASSUME IInv, Next
    PROVE  \/ UNCHANGED <<sendQ, target>>
           \/ sendQ # <<>> /\ sendQ' = Tail(sendQ) /\ UNCHANGED target
           \/ sendQ' = Append(sendQ, target')
  <1> USE DEF IInv, TypeOK, PcTypeOK, QueueInv
  <1>1. CASE LoopStep
    BY <1>1 DEF LoopStep, LoopReconnect, LoopIdle, LoopKeepalive, LoopAwake, ResyncDone,
                ResyncFails, KeepaliveDone, KeepaliveFails, LoopConnectFails, BtResetDone,
                WriteGranted, EnterDisconnect, TakeDisconnect, AfterDisconnect
  <1>2. CASE SendStep
    <2>1. CASE SendFailed \/ SendConnectFails
      BY <2>1 DEF SendFailed, SendConnectFails, EnterDisconnect, TakeDisconnect,
                  AfterDisconnect, EndSend
    <2> QED
      BY <1>2, <2>1 DEF SendStep, SendStart, SendAttempt, SendWritten, SendRaises, SendConfirm,
                        WriteGranted, SendTimeout, EndSend
  <1>3. ASSUME NEW p \in Tasks, LinkStep(p)
        PROVE  \/ UNCHANGED <<sendQ, target>>
               \/ sendQ # <<>> /\ sendQ' = Tail(sendQ) /\ UNCHANGED target
               \/ sendQ' = Append(sendQ, target')
    <2>1. CASE DisconnectGranted(p) \/ Disconnected(p) \/ DisconnectFails(p)
      BY <2>1 DEF DisconnectGranted, Disconnected, DisconnectFails, TakeDisconnect,
                  AfterDisconnect, EndSend
    <2> QED
      BY <1>3, <2>1 DEF LinkStep, ConnectGranted, ConnectOk, Connected
  <1>4. CASE LinkDrop \/ KeepaliveDue \/ CooldownOver \/ Heartbeat \/ \E v \in Payloads : Push(v)
    BY <1>4 DEF LinkDrop, KeepaliveDue, CooldownOver, Heartbeat, Push
  <1> QED
    BY <1>1, <1>2, <1>3, <1>4 DEF Next

\* Whatever is queued last is the state of now, so that a queue that empties has shown, or
\* has given up, the current state last (_push_combined_state, detection/service.py).
THEOREM QueuesCurrentLast == Spec => []LastIsCurrent
  <1>1. Init => LastIsCurrent
    BY DEF Init, LastIsCurrent
  <1>2. IInv /\ LastIsCurrent /\ [Next]_vars => LastIsCurrent'
    <2> SUFFICES ASSUME IInv, LastIsCurrent, [Next]_vars PROVE LastIsCurrent'
      OBVIOUS
    <2>1. sendQ \in Seq(Payloads) /\ target' \in Payloads
      <3>1. IInv'
        BY NextIInv
      <3> QED
        BY <3>1 DEF IInv, TypeOK, DataTypeOK, PayloadTypeOK
    <2>2. CASE UNCHANGED <<sendQ, target>>
      BY <2>2 DEF LastIsCurrent
    <2>3. CASE sendQ # <<>> /\ sendQ' = Tail(sendQ) /\ UNCHANGED target
      <3>1. Len(sendQ') = Len(sendQ) - 1
            /\ \A i \in 1 .. Len(sendQ') : sendQ'[i] = sendQ[i + 1]
        BY <2>1, <2>3, HeadTailProperties
      <3>2. sendQ' # <<>> => Len(sendQ') \in 1 .. Len(sendQ')
        BY <2>1, <2>3, <3>1, EmptySeq, HeadTail
      <3> QED
        BY <2>1, <2>3, <3>1, <3>2 DEF LastIsCurrent
    <2>4. CASE sendQ' = Append(sendQ, target')
      BY <2>1, <2>4, AppendProperties DEF LastIsCurrent
    <2>5. CASE UNCHANGED vars
      BY <2>5 DEF vars, LastIsCurrent
    <2> QED
      BY <2>2, <2>3, <2>4, <2>5, QueueSteps
  <1> QED
    BY <1>1, <1>2, Inductive, PTL DEF Spec
=============================================================================
