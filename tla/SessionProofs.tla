---------------------------- MODULE SessionProofs ----------------------------
(***************************************************************************)
(* PacketHandler implements Session, for every number of clients, sockets, *)
(* packets and connections and whatever clients send: each of its steps is *)
(* a step of Session or leaves the state of the session as it is.          *)
(***************************************************************************)
EXTENDS PacketSession, PacketHandlerProofs

(***************************************************************************)
(* The pointers that the tasks and queues hold are of ConnectionInfos the  *)
(* pool has made.  So the constructor, which empties an out_queue, never   *)
(* works on the ConnectionInfo whose replies are being sent.               *)
(***************************************************************************)
Made == 1..pool_size

MadeInv ==
    /\ linfo \in Made \cup {0} /\ info \in Made \cup {0} /\ control \in Made \cup {0}
    /\ connections_queue \in Seq(Made)
    /\ ritem \in Made \cup {0} /\ \A n \in Indices : data[n] \in Made \cup {0}

SInv == IInv /\ MadeInv

\* The replies of a queue, by what they are meant to be.
Wants(queue) == [n \in DOMAIN queue |-> queue[n].want]

-----------------------------------------------------------------------------
(* The ConnectionInfos *)

LEMMA MoreMade ==
    ASSUME NEW n \in Nat, NEW m \in Nat, n <= m, NEW s \in Seq(1..n)
    PROVE  s \in Seq(1..m)
OBVIOUS

LEMMA HeadTail ==
    ASSUME NEW S, NEW s \in Seq(S), s # <<>>
    PROVE  Head(s) \in S /\ Tail(s) \in Seq(S)
OBVIOUS

LEMMA MadeGet ==
    ASSUME IInv, MadeInv, GetInfo \/ GetInfoGoesOn
    PROVE  /\ MadeInv'
           /\ \A i \in Made : out_queue'[i] = out_queue[i]
<1>1. /\ pool_size \in Nat /\ MaxConns \in Nat
      /\ out_queue \in [Infos -> Seq(Entries)]
    BY PoolAssumption DEF IInv, TypeOK, PoolTypeOK
<1>2. UNCHANGED <<data, ritem, info, control, connections_queue>>
    BY DEF GetInfo, GetInfoGoesOn, GetKeeps, GetStart, GetMake, GetPop, GetCount, GetStore,
           handler, releaser
<1>3. CASE GetInfoGoesOn /\ GetMake
    <2>1. linfo' = pool_size + 1 /\ pool_size' = pool_size + 1
        BY <1>3 DEF GetMake
    <2>2. Made' = 1..(pool_size + 1) /\ Made \subseteq Made' /\ linfo' \in Made'
        BY <1>1, <2>1 DEF Made
    <2>3. connections_queue' \in Seq(Made')
        BY <1>1, <1>2, <2>2, MoreMade DEF MadeInv, Made
    <2>4. MadeInv'
        BY <1>2, <2>2, <2>3 DEF MadeInv
    <2>5. out_queue' = out_queue \/ out_queue' = [out_queue EXCEPT ![pool_size + 1] = <<>>]
        BY <1>3, <2>1 DEF GetInfoGoesOn, ConnConstructor
    <2>6. \A i \in Made : i # pool_size + 1
        BY <1>1 DEF Made
    <2>7. \A i \in Made : i \in Infos
        BY <1>1, PoolAssumption DEF Made, Infos, IInv, TypeOK, PoolTypeOK
    <2>8. \A i \in Made : out_queue'[i] = out_queue[i]
        BY <1>1, <2>5, <2>6, <2>7
    <2> QED
        BY <2>4, <2>8
<1>4. CASE ~(GetInfoGoesOn /\ GetMake)
    <2>1. GetStart \/ GetPop \/ GetCount \/ GetStore
        BY <1>4 DEF GetInfo, GetInfoGoesOn
    <2>2. pool_size' = pool_size /\ out_queue' = out_queue
        BY <1>4, <2>1
        DEF GetInfo, GetInfoGoesOn, GetStart, GetPop, GetCount, GetStore
    <2>3. linfo' \in Made \cup {0}
        <3>1. CASE GetPop
            <4>1. PICK f \in Reread(gfree) : linfo' = data[f - 1]
                BY <3>1 DEF GetPop
            <4>2. f - 1 \in Indices
                BY <3>1, <4>1, PoolAssumption
                DEF GetPop, Reread, IInv, PoolInv, PoolTypeOK, GetOrder, Indices
            <4> QED
                BY <4>1, <4>2 DEF MadeInv
        <3>2. CASE ~GetPop
            <4>1. linfo' = linfo
                BY <2>1, <3>2 DEF GetStart, GetCount, GetStore
            <4> QED
                BY <4>1 DEF MadeInv
        <3> QED
            BY <3>1, <3>2
    <2>4. MadeInv'
        BY <1>2, <2>2, <2>3 DEF MadeInv, Made
    <2> QED
        BY <2>2, <2>4
<1> QED
    BY <1>3, <1>4

\* The other steps of the listening task, and the clients' steps.
LEMMA MadeListen == ASSUME IInv, MadeInv, Listen \/ Client PROVE MadeInv'
<1>1. CASE GetInfo \/ GetInfoGoesOn
    BY <1>1, MadeGet
<1>2. CASE Enqueue
    <2>1. linfo \in Made
        BY <1>2, PoolAssumption DEF IInv, ListenInv, Enqueue, Infos, MadeInv
    <2>2. connections_queue' \in Seq(Made)
        BY <1>2, <2>1 DEF Enqueue, MadeInv
    <2> QED
        BY <1>2, <2>2 DEF Enqueue, MadeInv, Made, connections_pool, handler
<1>3. CASE ~Enqueue /\ ~GetInfo /\ ~GetInfoGoesOn
    <2>1. UNCHANGED <<linfo, handler, control, connections_queue, connections_pool>>
        BY <1>3 DEF Listen, Client, Connect, Vanish, Send, Accept, Fill, listener, memory
    <2> QED
        BY <2>1 DEF MadeInv, Made, connections_pool, handler
<1> QED
    BY <1>1, <1>2, <1>3

LEMMA MadeHandle == ASSUME IInv, MadeInv, Handle \/ Reboot PROVE MadeInv'
<1>1. CASE First \/ PollAdopt \/ PollRefuse
    <2>1. Head(connections_queue) \in Made /\ Tail(connections_queue) \in Seq(Made)
        <3>1. connections_queue # <<>>
            BY <1>1 DEF First, PollAdopt, PollRefuse
        <3>2. connections_queue \in Seq(Made)
            BY DEF MadeInv
        <3> QED
            BY <3>1, <3>2, HeadTail
    <2>2. /\ info' = Head(connections_queue) /\ connections_queue' = Tail(connections_queue)
          /\ control' \in {control, info'} /\ UNCHANGED <<linfo, connections_pool>>
        BY <1>1 DEF First, PollAdopt, PollRefuse, listener
    <2> QED
        BY <2>1, <2>2 DEF MadeInv, Made, connections_pool
<1>2. CASE ReleaseInfo \/ ReleaseInfoGoesOn
    <2>1. /\ UNCHANGED <<linfo, info, control, connections_queue>> /\ pool_size' = pool_size
          /\ ritem' \in {info, ritem, 0}
          /\ data' \in {data, [data EXCEPT ![rindex] = ritem]}
        BY <1>2 DEF ReleaseInfo, ReleaseInfoGoesOn, ReleaseKeeps, ReleaseStart, ReleaseTest,
                    ReleaseIndex, ReleaseData, ReleaseCount, Written, listener
    <2>2. \A n \in Indices : data'[n] \in {data[n], ritem}
        BY <2>1 DEF IInv, PoolInv, PoolTypeOK
    <2> QED
        BY <2>1, <2>2 DEF MadeInv, Made
<1>3. CASE Reboot
    <2>1. /\ linfo' = 0 /\ info' = 0 /\ control' = 0 /\ ritem' = 0
          /\ connections_queue' = <<>> /\ \A n \in Indices : data'[n] = 0
        BY <1>3 DEF Reboot
    <2> QED
        BY <2>1 DEF MadeInv
<1>4. CASE /\ Handle /\ ~First /\ ~PollAdopt /\ ~PollRefuse
           /\ ~ReleaseInfo /\ ~ReleaseInfoGoesOn
    <2>1. /\ UNCHANGED <<linfo, connections_queue, connections_pool>>
          /\ info' \in {info, control} /\ control' \in {control, 0}
        BY <1>4 DEF Handle, Select, Check, Receive, ReceiveWild, Process, ProcessUnhandled,
                    CloseConn, Close, CloseFails, ResetHndl, Release, Transmit, Drained, PollNone,
                    listener, handler, memory
    <2> QED
        BY <2>1 DEF MadeInv, Made, connections_pool
<1> QED
    BY <1>1, <1>2, <1>3, <1>4

LEMMA Strengthened == Spec => []SInv
<1>1. Init => SInv
    <2> SUFFICES ASSUME Init PROVE MadeInv
        BY InitInv DEF SInv
    <2>1. /\ linfo = 0 /\ info = 0 /\ control = 0 /\ ritem = 0
          /\ connections_queue = <<>> /\ \A n \in Indices : data[n] = 0
        BY DEF Init, NewPool
    <2> QED
        BY <2>1 DEF MadeInv
<1>2. SInv /\ [Next]_vars => SInv'
    <2> SUFFICES ASSUME SInv, [Next]_vars PROVE SInv'
        OBVIOUS
    <2>1. IInv'
        BY ClientStep, ListenStep, HandleStep, RebootStep, StutterStep DEF SInv, Next
    <2>2. MadeInv'
        <3>1. CASE UNCHANGED vars
            BY <3>1 DEF SInv, MadeInv, Made, vars, listener, handler, memory, connections_pool
        <3> QED
            BY <3>1, MadeListen, MadeHandle DEF SInv, Next
    <2> QED
        BY <2>1, <2>2 DEF SInv
<1> QED
    BY <1>1, <1>2, PTL DEF Spec

-----------------------------------------------------------------------------
(* The replies a handler leaves *)

LEMMA WantsAppend ==
    ASSUME NEW queue \in Seq(Entries), NEW e
    PROVE  Wants(Append(queue, e)) = Append(Wants(queue), e.want)
<1>1. /\ Len(queue) \in Nat /\ DOMAIN queue = 1..Len(queue)
      /\ DOMAIN Append(queue, e) = 1..(Len(queue) + 1)
      /\ \A n \in 1..Len(queue) : Append(queue, e)[n] = queue[n]
      /\ Append(queue, e)[Len(queue) + 1] = e
    OBVIOUS
<1>2. Wants(queue) \in Seq({queue[n].want : n \in DOMAIN queue}) /\ Len(Wants(queue)) = Len(queue)
    BY <1>1 DEF Wants
<1> QED
    BY <1>1, <1>2 DEF Wants

LEMMA ShortQueues ==
    /\ Wants(<<>>) = <<>>
    /\ \A x : Append(<<>>, x) = <<x>>
    /\ \A x, y : Append(<<x>>, y) = <<x, y>>
<1>1. Wants(<<>>) = <<>>
    BY DEF Wants
<1>2. ASSUME NEW x PROVE Append(<<>>, x) = <<x>>
    OBVIOUS
<1>3. ASSUME NEW x, NEW y PROVE Append(<<x>>, y) = <<x, y>>
    <2> DEFINE s == Append(<<x>>, y)
    <2>1. s \in Seq({x, y}) /\ Len(s) = 2 /\ s[1] = x /\ s[2] = y
        OBVIOUS
    <2> HIDE DEF s
    <2>2. s = <<x, y>>
        BY <2>1
    <2> QED
        BY <2>2 DEF s
<1> QED
    BY <1>1, <1>2, <1>3

LEMMA WantsEmpty ==
    ASSUME NEW queue \in Seq(Entries)
    PROVE  Wants(queue) = <<>> <=> queue = <<>>
<1>1. DOMAIN queue = 1..Len(queue) /\ Len(queue) \in Nat /\ DOMAIN Wants(queue) = DOMAIN queue
    BY DEF Wants
<1>2. ASSUME queue # <<>> PROVE Wants(queue) # <<>>
    <2>1. 1 \in DOMAIN Wants(queue)
        BY <1>1, <1>2
    <2> QED
        BY <2>1
<1> QED
    BY <1>2, ShortQueues

LEMMA WantsTail ==
    ASSUME NEW queue \in Seq(Entries), queue # <<>>
    PROVE  Wants(Tail(queue)) = Tail(Wants(queue))
<1>1. /\ Len(queue) \in Nat \ {0} /\ DOMAIN queue = 1..Len(queue)
      /\ DOMAIN Tail(queue) = 1..(Len(queue) - 1)
      /\ \A n \in 1..(Len(queue) - 1) : Tail(queue)[n] = queue[n + 1] /\ n + 1 \in 1..Len(queue)
    OBVIOUS
<1>2. Wants(queue) \in Seq({queue[n].want : n \in DOMAIN queue}) /\ Len(Wants(queue)) = Len(queue)
    BY <1>1 DEF Wants
<1>3. /\ DOMAIN Tail(Wants(queue)) = 1..(Len(queue) - 1)
      /\ \A n \in 1..(Len(queue) - 1) : Tail(Wants(queue))[n] = Wants(queue)[n + 1]
    BY <1>1, <1>2
<1> QED
    BY <1>1, <1>3 DEF Wants

\* What a write, or a reply that is created and written, adds to a queue.
Adds(st, r, want) == Wants(r.queue) \in {Wants(st.queue), Append(Wants(st.queue), want)}

LEMMA WriteAdds ==
    ASSUME NEW st \in StoreType, NEW e \in Entries, NEW r \in WritePacket(st, e)
    PROVE  Adds(st, r, e.want)
<1>1. st.queue \in Seq(Entries)
    BY DEF StoreType
<1> QED
    BY <1>1, WriteResult, WantsAppend DEF Adds

LEMMA CreateSendAdds ==
    ASSUME NEW st, NEW p, NEW c \in Clients, NEW want \in ReplyKinds \ {"memory"},
           GoodStore(st, p, c), NEW r \in CreateSendPacket(st, want, c)
    PROVE  Adds(st, r, want)
<1>1. st \in StoreType
    BY DEF GoodStore
<1>2. CASE Exhausted(st.pool, MaxPackets)
    <2>1. r = [st EXCEPT !.status = "fail"]
        BY <1>2 DEF CreateSendPacket
    <2> QED
        BY <1>1, <2>1 DEF StoreType, Adds
<1>3. CASE ~Exhausted(st.pool, MaxPackets)
    <2> DEFINE m == PoolItem(st.pool)
               b == CreatePacket(st.buf[m], want)
               t == [st EXCEPT !.pool = PoolGet(st.pool), !.buf[m] = b]
               e == Entry(m, want, c)
    <2>1. r \in WritePacket(t, e)
        BY <1>3 DEF CreateSendPacket
    <2>2. m \in Packets
        <3>1. st.pool \in PoolType(MaxPackets) /\ MaxPackets \in Nat
            BY <1>1, PoolAssumption DEF StoreType
        <3> QED
            BY <1>3, <3>1, PoolGetType DEF Packets
    <2>3. b \in PacketTypeSet
        <3>1. st.buf[m] \in PacketTypeSet
            BY <1>1, <2>2 DEF StoreType
        <3> QED
            BY <3>1, CreatePacketType
    <2>4. t \in StoreType /\ t.queue = st.queue
        <3>1. t = Take(st, b)
            BY DEF Take
        <3>2. \A x \in PacketTypeSet : GoodStore(Take(st, x), p, c)
            BY <1>3, TakeGood, Zenon
        <3>3. t.queue = st.queue
            BY <1>1 DEF StoreType
        <3> HIDE DEF b, t
        <3> QED
            BY <2>3, <3>1, <3>2, <3>3 DEF GoodStore
    <2>5. e \in Entries /\ e.want = want
        BY <2>2 DEF Entry, Entries
    <2> HIDE DEF m, b, t, e
    <2>6. Adds(t, r, e.want)
        BY <2>1, <2>4, <2>5, WriteAdds
    <2> QED
        BY <2>4, <2>5, <2>6 DEF Adds
<1> QED
    BY <1>2, <1>3

LEMMA SendAdds ==
    ASSUME NEW st, NEW p, NEW c \in Clients, GoodStore(st, p, c),
           NEW r \in SendPacket(st, p, "memory", c)
    PROVE  Adds(st, r, "memory")
<1> DEFINE b == CreatePacket(st.buf[p], Unknown)
           t == [st EXCEPT !.buf[p] = b]
           e == Entry(p, "memory", c)
<1>1. r \in WritePacket(t, e)
    BY DEF SendPacket
<1>2. /\ st \in StoreType /\ st.pool \in PoolType(MaxPackets)
      /\ st.buf \in [Packets -> PacketTypeSet]
    BY DEF GoodStore, StoreType
<1>3. p \in Packets
    BY <1>2, PoolAssumption DEF GoodStore, Out, PoolType, Packets
<1>4. b \in PacketTypeSet
    BY <1>2, <1>3, CreatePacketType
<1>5. t \in StoreType /\ t.queue = st.queue
    BY <1>2, <1>3, <1>4 DEF StoreType
<1>6. e \in Entries /\ e.want = "memory"
    BY <1>3 DEF Entry, Entries, ReplyKinds
<1> HIDE DEF b, t, e
<1>7. Adds(t, r, e.want)
    BY <1>1, <1>5, <1>6, WriteAdds
<1> QED
    BY <1>5, <1>6, <1>7 DEF Adds

\* The handler of a read request.
LEMMA ReadOutcomes ==
    ASSUME NEW st, NEW p, NEW c \in Clients,
           GoodStore(st, p, c), NotQueued(st, p), st.queue = <<>>,
           NEW r \in ProcessRead(st, p, c)
    PROVE  Wants(r.queue) \in Abstract!Outcomes("read")
<1>0. st \in StoreType /\ Wants(<<>>) = <<>>
    BY ShortQueues DEF GoodStore
<1>1. CASE Exhausted(st.pool, MaxPackets)
    <2>1. r = [st EXCEPT !.status = "fail"]
        BY <1>1 DEF ProcessRead
    <2> QED
        BY <1>0, <2>1 DEF StoreType, Abstract!Outcomes
<1>2. CASE ~Exhausted(st.pool, MaxPackets)
    <2> DEFINE m == PoolItem(st.pool)
               b == [st.buf[m] EXCEPT !.body = "memory"]
               got == [st EXCEPT !.pool = PoolGet(st.pool), !.buf[m].body = "memory"]
               failed == CreateSendPacket(got, "error", c)
    <2>2. m \in Packets
        <3>1. st.pool \in PoolType(MaxPackets) /\ MaxPackets \in Nat
            BY <1>0, PoolAssumption DEF StoreType
        <3> QED
            BY <1>2, <3>1, PoolGetType DEF Packets
    <2>3. b \in PacketTypeSet
        BY <1>0, <2>2 DEF StoreType, PacketTypeSet, ReplyKinds
    <2>4. got = Take(st, b) /\ got.queue = <<>>
        BY <1>0, <2>2 DEF StoreType, Take
    <2>5. GoodStore(got, p, c) /\ NotQueued(got, p)
        <3>1. \A x \in PacketTypeSet : GoodStore(Take(st, x), p, c)
            BY <1>2, TakeGood, Zenon
        <3> QED
            BY <2>3, <2>4, <3>1 DEF NotQueued
    <2>7. r \in {st, got} \cup SendPacket(got, p, "memory", c) \cup failed
               \cup UNION {SendPacket(s, p, "memory", c) : s \in {x \in failed : x.status = "ok"}}
        BY <1>2 DEF ProcessRead
    <2> HIDE DEF got
    <2>8. \A s \in failed : GoodStore(s, p, c) /\ Wants(s.queue) \in {<<>>, <<"error">>}
        <3>1. "error" \in ReplyKinds \ {"memory"}
            BY DEF ReplyKinds
        <3>2. \A s \in failed : Adds(got, s, "error")
            BY <2>5, <3>1, CreateSendAdds
        <3>3. \A s \in failed : GoodStore(s, p, c)
            BY <2>5, <3>1, CreateSendGood
        <3> QED
            BY <1>0, <2>4, <3>2, <3>3, ShortQueues DEF Adds
    <2> HIDE DEF failed
    <2>9. CASE r \in {st, got} \cup failed
        BY <1>0, <2>4, <2>8, <2>9 DEF Abstract!Outcomes
    <2>10. CASE r \in SendPacket(got, p, "memory", c)
        <3>1. Adds(got, r, "memory")
            BY <2>5, <2>10, SendAdds
        <3> QED
            BY <1>0, <2>4, <3>1, ShortQueues DEF Adds, Abstract!Outcomes
    <2>11. ASSUME NEW s \in failed, r \in SendPacket(s, p, "memory", c)
           PROVE  Wants(r.queue) \in Abstract!Outcomes("read")
        <3>1. Adds(s, r, "memory")
            BY <2>8, <2>11, SendAdds
        <3>2. Wants(r.queue) \in {<<>>, <<"error">>, <<"memory">>, <<"error", "memory">>}
            BY <2>8, <3>1, ShortQueues DEF Adds
        <3> QED
            BY <3>2 DEF Abstract!Outcomes
    <2> QED
        BY <2>7, <2>9, <2>10, <2>11
<1> QED
    BY <1>1, <1>2

(***************************************************************************)
(* Every handler of controller.c replies with what the request's kind      *)
(* allows, or restarts the device.                                         *)
(***************************************************************************)
LEMMA ProcessOutcomes ==
    ASSUME NEW type \in Handled, NEW st, NEW p, NEW c \in Clients,
           GoodStore(st, p, c), NotQueued(st, p), st.queue = <<>>,
           NEW r \in ProcessPacket(type, st, p, c)
    PROVE  \/ Wants(r.queue) \in Abstract!Outcomes(type)
           \/ r.status = "restart" /\ Wants(r.queue) \in {<<>>, <<"error">>}
<1>0. st \in StoreType /\ Wants(<<>>) = <<>>
    BY ShortQueues DEF GoodStore
<1>1. \A want \in {"answer", "ack", "error"} : \A s :
          GoodStore(s, p, c) /\ NotQueued(s, p)
          => \A x \in CreateSendPacket(s, want, c) : GoodStore(x, p, c) /\ Adds(s, x, want)
    <2>1. {"answer", "ack", "error"} \subseteq ReplyKinds \ {"memory"}
        BY DEF ReplyKinds
    <2> QED
        BY <2>1, CreateSendGood, CreateSendAdds
<1>2. ASSUME r \in Critical(CreateSendPacket(st, "ack", c))
      PROVE  Wants(r.queue) \in {<<>>, <<"ack">>}
    <2>1. PICK s \in CreateSendPacket(st, "ack", c) :
              r = IF s.status = "fail" THEN [s EXCEPT !.status = "restart"] ELSE s
        BY <1>2 DEF Critical
    <2>2. s \in StoreType /\ Adds(st, s, "ack")
        BY <1>1, <2>1 DEF GoodStore
    <2>3. r.queue = s.queue
        BY <2>1, <2>2 DEF StoreType
    <2> QED
        BY <1>0, <2>2, <2>3, ShortQueues DEF Adds
<1>3. CASE type = "silent"
    BY <1>0, <1>3 DEF ProcessPacket, ProcessSilent, Abstract!Outcomes
<1>4. CASE type = "cmd"
    <2>1. r \in ProcessCmd(st, p, c)
        BY <1>4 DEF ProcessPacket
    <2>2. \A s \in CreateSendPacket(st, "error", c) :
              /\ GoodStore(s, p, c) /\ NotQueued(s, p)
              /\ Wants(s.queue) \in {<<>>, <<"error">>}
        <3>1. "error" \in ReplyKinds \ {"memory"}
            BY DEF ReplyKinds
        <3> QED
            BY <1>0, <1>1, <3>1, CreateSendGood, ShortQueues DEF Adds
    <2>3. Wants(r.queue) \in {<<>>, <<"answer">>, <<"error">>, <<"error", "answer">>}
        <3>1. CASE r = st
            BY <1>0, <3>1
        <3>2. CASE r \in CreateSendPacket(st, "answer", c)
            <4>1. Adds(st, r, "answer")
                BY <1>1, <3>2
            <4> QED
                BY <1>0, <4>1, ShortQueues DEF Adds
        <3>3. ASSUME NEW s \in CreateSendPacket(st, "error", c), r \in CreateSendPacket(s, "answer", c)
              PROVE  Wants(r.queue) \in {<<>>, <<"answer">>, <<"error">>, <<"error", "answer">>}
            <4>1. Adds(s, r, "answer")
                BY <1>1, <2>2, <3>3
            <4> QED
                BY <2>2, <4>1, ShortQueues DEF Adds
        <3> QED
            BY <2>1, <3>1, <3>2, <3>3 DEF ProcessCmd
    <2> QED
        BY <1>4, <2>3 DEF Abstract!Outcomes
<1>5. CASE type = "load"
    BY <1>2, <1>5 DEF ProcessPacket, ProcessLoad, Abstract!Outcomes
<1>6. CASE type = "prog"
    <2>1. r \in ProcessProg(st, p, c)
        BY <1>6 DEF ProcessPacket
    <2>2. CASE r \in Critical(CreateSendPacket(st, "ack", c))
        BY <1>2, <1>6, <2>2 DEF Abstract!Outcomes
    <2>3. ASSUME NEW s \in CreateSendPacket(st, "error", c), r = [s EXCEPT !.status = "restart"]
          PROVE  r.status = "restart" /\ Wants(r.queue) \in {<<>>, <<"error">>}
        <3>1. s \in StoreType /\ Adds(st, s, "error")
            BY <1>1 DEF GoodStore
        <3>2. r.status = "restart" /\ r.queue = s.queue
            BY <2>3, <3>1 DEF StoreType
        <3> QED
            BY <1>0, <3>1, <3>2, ShortQueues DEF Adds
    <2> QED
        BY <2>1, <2>2, <2>3 DEF ProcessProg
<1>7. CASE type = "read"
    BY <1>7, ReadOutcomes DEF ProcessPacket
<1> QED
    BY <1>3, <1>4, <1>5, <1>6, <1>7 DEF Handled

-----------------------------------------------------------------------------
(* The steps *)

Waiting  == Up /\ hpc # "dispatch" /\ ~Replying
Serving  == Up /\ hpc = "dispatch"
Sending  == Up /\ Replying

\* The state of the session in each of the four situations.
MappedAs ==
    /\ ~Up     => phase = "down"     /\ asker = None       /\ kind = "none" /\ pending = <<>>
    /\ Waiting => phase = "waiting"  /\ asker = None       /\ kind = "none" /\ pending = <<>>
    /\ Serving => phase = "serving"  /\ asker = sock[hndl] /\ kind = buf[packet].type
                                     /\ pending = <<>>
    /\ Sending => phase = "replying" /\ asker = sock[hndl] /\ kind = "none"
                                     /\ pending = Wants(out_queue[info])

LEMMA Mapped == MappedAs
<1>1. (~Up => phase = "down")
    BY DEF phase
<1>2. (Waiting => phase = "waiting")
    BY DEF phase, Waiting
<1>3. (Serving => phase = "serving")
    BY DEF phase, Serving, Replying
<1>4. (Sending => phase = "replying")
    BY DEF phase, Sending, Replying
<1> QED
    BY <1>1, <1>2, <1>3, <1>4
       DEF MappedAs, Waiting, Serving, Sending, asker, kind, pending, Wants

LEMMA MappedNext == MappedAs'
<1>1. (~Up => phase = "down")'
    BY DEF phase
<1>2. (Waiting => phase = "waiting")'
    BY DEF phase, Waiting
<1>3. (Serving => phase = "serving")'
    BY DEF phase, Serving, Replying
<1>4. (Sending => phase = "replying")'
    BY DEF phase, Sending, Replying
<1> QED
    BY <1>1, <1>2, <1>3, <1>4
       DEF MappedAs, Waiting, Serving, Sending, asker, kind, pending, Wants

Step == [Abstract!Next]_(Abstract!vars)

\* A device that goes down forgets the session.
LEMMA DownStep == ASSUME ~Up' PROVE Step
BY MappedNext DEF MappedAs, Step, Abstract!Next, Abstract!GoDown

LEMMA WaitStep == ASSUME Waiting, Waiting' PROVE Step
BY Mapped, MappedNext DEF MappedAs, Step, Abstract!vars

\* The peer of the socket that is served, or replied to.
LEMMA Peer == ASSUME IInv, Serving \/ Sending PROVE sock[hndl] \in Clients /\ hndl \in Handles
<1>1. TypeOK /\ PacketInv
    BY DEF IInv
<1>2. CASE Serving
    BY <1>1, <1>2 DEF Serving, PacketInv, Working, Holding, TypeOK
<1>3. CASE Sending
    <2>1. info \in Infos /\ hndl \in Handles /\ out_queue[info] # <<>>
        BY <1>1, <1>3 DEF Sending, Replying, PacketInv, Working, Holding
    <2>2. 1 \in DOMAIN out_queue[info] /\ out_queue[info][1] \in Entries
        BY <1>1, <2>1 DEF TypeOK
    <2>3. sock[hndl] = out_queue[info][1].to
        BY <1>1, <1>3, <2>2 DEF Sending, Replying, PacketInv, GoodQueue
    <2> QED
        BY <2>1, <2>2, <2>3 DEF Entries
<1> QED
    BY <1>2, <1>3

\* The clients and the listening task leave the session as it is.
LEMMA OthersStep ==
    ASSUME SInv, UNCHANGED <<handler, buf>>, Up,
           \A h \in Handles : sock[h] # None => sock'[h] = sock[h],
           \A i \in Made : out_queue'[i] = out_queue[i]
    PROVE  Step
<1>1. CASE ~Up'
    BY <1>1, DownStep
<1>2. CASE Up' /\ Serving
    <2>1. sock'[hndl] = sock[hndl] /\ Serving'
        BY <1>2, Peer, NoneAssumption DEF SInv, Serving, handler
    <2> QED
        BY <1>2, <2>1, Mapped, MappedNext DEF MappedAs, handler, Step, Abstract!vars
<1>3. CASE Up' /\ Up /\ hpc \in {"release", "drain"}
    <2>1. info \in Made
        <3>1. info \in Infos /\ info \in Made \cup {0}
            BY <1>3 DEF SInv, MadeInv, IInv, PacketInv, Working, Holding
        <3> QED
            BY <3>1 DEF Infos
    <2>2. out_queue'[info'] = out_queue[info] /\ hpc' = hpc
        BY <2>1 DEF handler
    <2>3. CASE Sending
        <3>1. sock'[hndl] = sock[hndl] /\ Sending'
            BY <1>3, <2>2, <2>3, Peer, NoneAssumption DEF SInv, Sending, Replying
        <3> QED
            BY <2>2, <2>3, <3>1, Mapped, MappedNext
               DEF MappedAs, handler, Wants, Step, Abstract!vars
    <2>4. CASE ~Sending
        <3>1. Waiting /\ Waiting'
            BY <1>3, <2>2, <2>4 DEF Waiting, Sending, Replying
        <3> QED
            BY <3>1, WaitStep
    <2> QED
        BY <2>3, <2>4
<1>4. CASE Up' /\ Up /\ hpc \notin {"dispatch", "release", "drain"}
    <2>1. Waiting /\ Waiting'
        BY <1>4 DEF Waiting, Replying, handler
    <2> QED
        BY <2>1, WaitStep
<1> QED
    BY <1>1, <1>2, <1>3, <1>4 DEF Serving

LEMMA ClientListen == ASSUME SInv, Client \/ Listen PROVE Step
<1> USE DEF SInv, handler, memory, network
<1>1. CASE Client
    <2>1. Up /\ UNCHANGED <<handler, memory, sock>>
        BY <1>1 DEF Client, Connect, Vanish, Send
    <2> QED
        BY <2>1, OthersStep
<1>2. CASE \E c \in Clients, h \in Handles : Accept(c, h)
    <2>1. PICK c \in Clients, h \in Handles : Accept(c, h)
        BY <1>2
    <2>2. sock[h] = None /\ sock' = [sock EXCEPT ![h] = c] /\ Up /\ UNCHANGED <<handler, memory>>
        BY <2>1 DEF Accept
    <2>3. \A k \in Handles : sock[k] # None => sock'[k] = sock[k]
        BY <2>2 DEF IInv, TypeOK
    <2> QED
        BY <2>2, <2>3, OthersStep
<1>3. CASE GetInfo \/ GetInfoGoesOn
    <2>1. \A i \in Made : out_queue'[i] = out_queue[i]
        BY <1>3, MadeGet
    <2>2. Up /\ UNCHANGED <<handler, buf, sock>>
        BY <1>3 DEF GetInfo, GetInfoGoesOn, GetKeeps
    <2> QED
        BY <2>1, <2>2, OthersStep
<1>4. CASE Fill \/ Enqueue
    <2>1. Up /\ UNCHANGED <<handler, buf, sock, out_queue>>
        BY <1>4 DEF Fill, Enqueue
    <2> QED
        BY <2>1, OthersStep
<1> QED
    BY <1>1, <1>2, <1>3, <1>4 DEF Listen

\* What is received has one of the types of the protocol.
LEMMA ParsedType ==
    ASSUME TypeOK, NEW p \in Packets, NEW h \in Handles, NEW b \in Received(p, h)
    PROVE  b.type \in MsgTypes
<1>1. buf[p] \in PacketTypeSet
    BY DEF TypeOK
<1>2. inbox[h] # <<>> => Head(inbox[h]) \in MsgTypes \cup {Bad}
    BY InputAssumption DEF TypeOK
<1>3. buf[p].wire # Unknown => buf[p].wire \in MsgTypes \cup {Bad}
    BY <1>1 DEF PacketTypeSet
<1>4. PICK w \in MsgTypes \cup {Bad} : b.type \in ParseHeader(buf[p], w)
    BY <1>2, <1>3 DEF Received
<1> QED
    BY <1>1, <1>4 DEF ParseHeader, PacketTypeSet

\* A request is received: it becomes the one that is served.
LEMMA ReceiveTake == ASSUME SInv, Receive PROVE Step
<1>1. IInv /\ Up /\ hpc = "recv" /\ hpc' = "dispatch" /\ UNCHANGED <<lpc, hndl, sock>>
    BY DEF SInv, Receive, listener
<1>2. Waiting /\ Serving'
    BY <1>1 DEF Waiting, Serving, Replying, Up
<1>3. sock[hndl] \in Clients
    BY <1>1 DEF IInv, TypeOK, PacketInv, Working, Holding
<1>4. packet' \in Packets /\ buf' \in [Packets -> PacketTypeSet]
    <2>1. IInv'
        BY <1>1, ReceiveStep
    <2>2. packet' \in Packets
        <3>1. Out(packets_pool', packet') /\ packets_pool' \in PoolType(MaxPackets)
            BY <1>1, <2>1 DEF IInv, TypeOK, PacketInv, Holding
        <3> QED
            BY <3>1, PoolAssumption DEF Out, PoolType, Packets
    <2> QED
        BY <2>1, <2>2 DEF IInv, TypeOK
<1>5. buf'[packet'].type \in MsgTypes
    <2>1. PICK b \in Received(packet', hndl) : buf' = [buf EXCEPT ![packet'] = b]
        BY DEF Receive
    <2>2. b.type \in MsgTypes
        BY <1>1, <1>3, <1>4, <2>1, ParsedType DEF IInv, PacketInv, Working, Holding
    <2> QED
        BY <1>1, <1>4, <2>1, <2>2 DEF IInv, TypeOK
<1>6. Abstract!Take(sock[hndl], buf'[packet'].type)
    BY <1>1, <1>2, Mapped, MappedNext DEF MappedAs, Abstract!Take
<1> QED
    BY <1>3, <1>5, <1>6 DEF Step, Abstract!Next

\* What a handler is given.
LEMMA StoreGood ==
    ASSUME IInv, hpc = "dispatch"
    PROVE  /\ GoodStore(Store, packet, sock[hndl]) /\ NotQueued(Store, packet)
           /\ Store.queue = <<>>
<1>1. TypeOK /\ PacketInv
    BY DEF IInv
<1>2. /\ info \in Infos /\ GoodPool(packets_pool) /\ Out(packets_pool, packet)
      /\ Len(packets_pool.free) < packets_pool.size
    BY <1>1 DEF PacketInv, Working, Holding
<1>3. Store = [pool |-> packets_pool, queue |-> <<>>, buf |-> buf, status |-> "ok"]
    BY <1>2, Empty DEF Store
<1>4. <<>> \in Seq(Entries)
    OBVIOUS
<1>5. Store \in StoreType
    BY <1>1, <1>3, <1>4 DEF StoreType, TypeOK
<1> QED
    BY <1>2, <1>3, <1>5 DEF GoodStore, NotQueued, GoodQueue, QueueOut

\* A handler runs: the request is served, or the device restarts.
LEMMA ProcessServe == ASSUME SInv, NEW type \in Handled, Process(type) PROVE Step
<1>1. /\ IInv /\ IInv' /\ Up /\ hpc = "dispatch" /\ buf[packet].type = type
      /\ UNCHANGED <<lpc, info, hndl, sock>>
    BY ProcessStep DEF SInv, Process, listener, network
<1>2. PICK st \in ProcessPacket(type, Store, packet, sock[hndl]) :
          /\ packets_pool' = st.pool
          /\ out_queue' = [out_queue EXCEPT ![info] = st.queue]
          /\ buf' = st.buf
          /\ hpc' = IF st.status = "restart" THEN "restart" ELSE "release"
    BY DEF Process
<1>3. CASE st.status = "restart"
    <2>1. ~Up'
        BY <1>2, <1>3 DEF Up
    <2> QED
        BY <2>1, DownStep
<1>4. CASE st.status # "restart"
    <2>1. /\ info \in Infos /\ sock[hndl] \in Clients /\ out_queue[info] = <<>>
          /\ out_queue \in [Infos -> Seq(Entries)]
        BY <1>1, Empty DEF IInv, PacketInv, Working, Holding, TypeOK
    <2>2. /\ GoodStore(Store, packet, sock[hndl]) /\ NotQueued(Store, packet)
          /\ Store.queue = <<>>
        BY <1>1, <2>1, StoreGood
    <2>3. Wants(st.queue) \in Abstract!Outcomes(type)
        BY <1>2, <1>4, <2>1, <2>2, ProcessOutcomes
    <2>4. out_queue'[info'] = st.queue /\ hpc' = "release" /\ Serving
        BY <1>1, <1>2, <1>4, <2>1 DEF Serving
    <2>5. Wants(st.queue) = <<>> <=> st.queue = <<>>
        <3>1. GoodStore(st, packet, sock[hndl])
            BY <1>2, <2>1, <2>2, ProcessGood
        <3>2. st.queue \in Seq(Entries)
            BY <3>1 DEF GoodStore, StoreType
        <3> QED
            BY <3>2, WantsEmpty
    <2>6. kind = type /\ asker = sock[hndl] /\ phase = "serving"
        BY <1>1, <2>4, Mapped DEF MappedAs
    <2>7. CASE st.queue = <<>>
        <3>1. Waiting'
            BY <1>1, <2>4, <2>7 DEF Waiting, Replying, Up
        <3>2. phase' = "waiting" /\ asker' = None /\ kind' = "none" /\ pending' = <<>>
            BY <3>1, MappedNext DEF MappedAs
        <3> QED
            BY <2>3, <2>5, <2>6, <2>7, <3>2
               DEF Step, Abstract!Next, Abstract!Serve, Abstract!Done
    <2>8. CASE st.queue # <<>>
        <3>1. Sending'
            BY <1>1, <2>4, <2>8 DEF Sending, Replying, Up
        <3>2. /\ phase' = "replying" /\ asker' = asker /\ kind' = "none"
              /\ pending' = Wants(st.queue)
            BY <1>1, <2>4, <2>6, <3>1, MappedNext DEF MappedAs
        <3> QED
            BY <2>3, <2>5, <2>6, <2>8, <3>2
               DEF Step, Abstract!Next, Abstract!Serve, Abstract!Done
    <2> QED
        BY <2>7, <2>8
<1> QED
    BY <1>3, <1>4

\* A Close packet is served by closing the connection; it has no reply.
LEMMA CloseServe == ASSUME SInv, CloseConn PROVE Step
<1>1. /\ IInv /\ Up /\ hpc = "dispatch" /\ buf[packet].type = "close"
      /\ hpc' = "close" /\ UNCHANGED <<lpc, info, out_queue>>
    BY DEF SInv, CloseConn, listener
<1>2. info \in Infos /\ out_queue[info] = <<>>
    BY <1>1, Empty DEF IInv, PacketInv, Working, Holding
<1>3. Serving /\ Waiting'
    BY <1>1, <1>2 DEF Serving, Waiting, Replying, Up
<1>4. /\ phase = "serving" /\ kind = "close"
      /\ phase' = "waiting" /\ asker' = None /\ kind' = "none" /\ pending' = <<>>
    BY <1>1, <1>3, Mapped, MappedNext DEF MappedAs
<1> QED
    BY <1>4 DEF Step, Abstract!Next, Abstract!Serve, Abstract!Done, Abstract!Outcomes

\* A reply is sent.
LEMMA TransmitReply == ASSUME SInv, Transmit PROVE Step
<1> DEFINE q == out_queue[info]
<1>1. /\ IInv /\ Up /\ hpc = "drain" /\ q # <<>>
      /\ out_queue' = [out_queue EXCEPT ![info] = Tail(q)]
      /\ UNCHANGED <<lpc, hpc, info, hndl, sock>>
    BY DEF SInv, Transmit, listener, handler, network
<1>2. info \in Infos /\ q \in Seq(Entries) /\ out_queue'[info'] = Tail(q)
    BY <1>1 DEF IInv, PacketInv, Working, Holding, TypeOK
<1>3. Sending
    BY <1>1 DEF Sending, Replying
<1>4. phase = "replying" /\ asker = sock[hndl] /\ kind = "none" /\ pending = Wants(q)
    BY <1>3, Mapped DEF MappedAs
<1>5. Wants(Tail(q)) = Tail(Wants(q))
    BY <1>1, <1>2, WantsTail
<1>6. CASE Tail(q) = <<>>
    <2>1. Waiting'
        BY <1>1, <1>2, <1>6 DEF Waiting, Replying, Up
    <2>2. phase' = "waiting" /\ asker' = None /\ kind' = "none" /\ pending' = <<>>
        BY <2>1, MappedNext DEF MappedAs
    <2>3. Tail(Wants(q)) = <<>>
        BY <1>5, <1>6, ShortQueues
    <2> QED
        BY <1>4, <2>2, <2>3 DEF Step, Abstract!Next, Abstract!Reply, Abstract!Done
<1>7. CASE Tail(q) # <<>>
    <2>1. Sending'
        BY <1>1, <1>2, <1>7 DEF Sending, Replying, Up
    <2>2. phase' = "replying" /\ asker' = asker /\ kind' = "none" /\ pending' = Wants(Tail(q))
        BY <1>1, <1>2, <1>4, <2>1, MappedNext DEF MappedAs
    <2>3. Wants(Tail(q)) # <<>>
        <3>1. Tail(q) \in Seq(Entries)
            BY <1>1, <1>2
        <3> QED
            BY <1>7, <3>1, WantsEmpty
    <2> QED
        BY <1>4, <1>5, <2>2, <2>3 DEF Step, Abstract!Next, Abstract!Reply, Abstract!Done
<1> QED
    BY <1>6, <1>7

\* The other steps of the handling task leave the session as it is.
LEMMA HandleQuiet ==
    ASSUME SInv,
           \/ First \/ Select \/ Check \/ Drained \/ PollNone \/ PollAdopt \/ PollRefuse
           \/ Close \/ CloseFails \/ ResetHndl \/ ReleaseInfo \/ ReleaseInfoGoesOn
    PROVE  Step
<1>1. /\ IInv /\ Up /\ UNCHANGED <<lpc, out_queue>>
      /\ hpc \notin {"dispatch", "release", "fault", "restart"}
      /\ hpc = "drain" => out_queue[info] = <<>>
    BY DEF SInv, First, Select, Check, Drained, PollNone, PollAdopt, PollRefuse, Close, CloseFails,
           ResetHndl, ReleaseInfo, ReleaseInfoGoesOn, ReleaseKeeps, listener, memory, Up
<1>2. Waiting
    BY <1>1 DEF Waiting, Replying
<1>3. /\ hpc' \notin {"dispatch", "fault", "restart"}
      /\ hpc' \in {"drain", "release"} => info' \in Infos /\ hpc # "drain"
    <2>1. CASE Check
        BY <1>1, <2>1 DEF Check, Alive, IInv, TypeOK
    <2>2. CASE Close \/ CloseFails \/ ResetHndl \/ ReleaseInfo \/ ReleaseInfoGoesOn
        BY <1>1, <2>2 DEF Close, CloseFails, ResetHndl, ReleaseInfo, ReleaseInfoGoesOn,
                          ReleaseKeeps, IInv, PacketInv, Working, Holding
    <2>3. CASE First \/ Select \/ Drained \/ PollNone \/ PollAdopt \/ PollRefuse
        BY <2>3 DEF First, Select, Drained, PollNone, PollAdopt, PollRefuse
    <2> QED
        BY <2>1, <2>2, <2>3
<1>4. hpc' \in {"drain", "release"} => out_queue'[info'] = <<>>
    BY <1>1, <1>3, Empty
<1>5. Waiting'
    BY <1>1, <1>3, <1>4 DEF Waiting, Replying, Up
<1> QED
    BY <1>2, <1>5, WaitStep

\* release_packet of the request: the replies are still to be sent.
LEMMA ReleaseQuiet == ASSUME SInv, Release PROVE Step
<1>1. /\ IInv /\ Up /\ hpc = "release" /\ hpc' = "drain"
      /\ UNCHANGED <<lpc, info, hndl, out_queue, sock>>
    <2>1. packets_pool \in PoolType(MaxPackets) /\ Len(packets_pool.free) < packets_pool.size
        BY DEF SInv, IInv, TypeOK, PacketInv, Holding, Release
    <2>2. ~Complete(packets_pool)
        BY <2>1, PoolAssumption DEF Complete, PoolType
    <2> QED
        BY <2>2 DEF SInv, Release, listener, network
<1>2. CASE Replying
    <2>1. Sending /\ Sending'
        BY <1>1, <1>2 DEF Sending, Replying, Up
    <2> QED
        BY <1>1, <2>1, Mapped, MappedNext DEF MappedAs, Wants, Step, Abstract!vars
<1>3. CASE ~Replying
    <2>1. Waiting /\ Waiting'
        BY <1>1, <1>3 DEF Waiting, Replying, Up
    <2> QED
        BY <2>1, WaitStep
<1> QED
    BY <1>2, <1>3

LEMMA RebootRestart == ASSUME Reboot PROVE Step
<1>1. ~Up /\ Waiting'
    BY DEF Reboot, Waiting, Replying, Up
<1> QED
    BY <1>1, Mapped, MappedNext DEF MappedAs, Step, Abstract!Next, Abstract!Restart

(***************************************************************************)
(* The device serves one request at a time, with the replies that are due  *)
(* to it, sent to its client before the next request is taken              *)
(* (packet_handler.c:204-249), for every behaviour of the clients: the     *)
(* specification of the tasks implements Session.                          *)
(***************************************************************************)
THEOREM SessionImplemented == Spec => SessionSpec
<1>1. Init => Abstract!Init
    <2> SUFFICES ASSUME Init PROVE Abstract!Init
        OBVIOUS
    <2>1. Waiting
        BY DEF Init, Waiting, Up, Replying
    <2> QED
        BY <2>1, Mapped DEF MappedAs, Abstract!Init
<1>2. SInv /\ [Next]_vars => [Abstract!Next]_(Abstract!vars)
    <2> SUFFICES ASSUME SInv, [Next]_vars PROVE Step
        BY DEF Step
    <2>1. CASE Client \/ Listen
        BY <2>1, ClientListen
    <2>2. CASE Handle
        <3>1. CASE ReceiveWild \/ ProcessUnhandled
            <4>1. ~Up'
                BY <3>1 DEF ReceiveWild, ProcessUnhandled, Up
            <4> QED
                BY <4>1, DownStep
        <3> QED
            BY <2>2, <3>1, ReceiveTake, ProcessServe, CloseServe, TransmitReply, HandleQuiet,
               ReleaseQuiet DEF Handle
    <2>3. CASE Reboot
        BY <2>3, RebootRestart
    <2>4. CASE UNCHANGED vars
        <3>1. UNCHANGED <<phase, asker, kind, pending>>
            BY <2>4 DEF vars, listener, handler, memory, network, phase, asker, kind, pending,
                        Replying, Up
        <3> QED
            BY <3>1 DEF Step, Abstract!vars
    <2> QED
        BY <2>1, <2>2, <2>3, <2>4 DEF Next
<1> QED
    BY <1>1, <1>2, Strengthened, PTL DEF Spec, SessionSpec, Abstract!Spec

-----------------------------------------------------------------------------
(* The room in the queues *)

LEMMA AtMostTwo ==
    ASSUME NEW queue \in Seq(Entries), NEW k \in MsgTypes,
           Wants(queue) \in Abstract!Outcomes(k) \cup {<<"error">>}
    PROVE  Len(queue) <= 2
<1>1. Len(queue) \in Nat /\ DOMAIN Wants(queue) = 1..Len(queue)
    BY DEF Wants
<1>2. Wants(queue) \in {<<>>, <<"answer">>, <<"error">>, <<"error", "answer">>, <<"memory">>,
                        <<"error", "memory">>, <<"ack">>}
    BY DEF Abstract!Outcomes, MsgTypes
<1>3. \A x, y : 3 \notin DOMAIN <<>> /\ 3 \notin DOMAIN <<x>> /\ 3 \notin DOMAIN <<x, y>>
    OBVIOUS
<1>4. 3 \notin 1..Len(queue)
    BY <1>1, <1>2, <1>3
<1> QED
    BY <1>1, <1>4

Few == \A i \in Infos : Len(out_queue[i]) <= 2

LEMMA FewStep == ASSUME SInv, Few, [Next]_vars PROVE Few'
<1>1. out_queue \in [Infos -> Seq(Entries)] /\ Len(<<>>) = 0
    BY DEF SInv, IInv, TypeOK
<1>2. CASE GetInfo \/ GetInfoGoesOn
    <2>1. \A i \in Infos : out_queue'[i] \in {out_queue[i], <<>>}
        BY <1>1, <1>2 DEF GetInfo, GetInfoGoesOn, ConnConstructor
    <2> QED
        BY <1>1, <2>1 DEF Few
<1>3. ASSUME NEW type \in Handled, Process(type) PROVE Few'
    <2>1. /\ IInv /\ hpc = "dispatch"
        BY <1>3 DEF SInv, Process
    <2>2. PICK st \in ProcessPacket(type, Store, packet, sock[hndl]) :
              out_queue' = [out_queue EXCEPT ![info] = st.queue]
        BY <1>3 DEF Process
    <2>3. /\ sock[hndl] \in Clients
          /\ GoodStore(Store, packet, sock[hndl]) /\ NotQueued(Store, packet)
          /\ Store.queue = <<>>
        BY <2>1, StoreGood DEF IInv, PacketInv, Working, Holding, TypeOK
    <2>4. st.queue \in Seq(Entries)
        BY <2>2, <2>3, ProcessGood DEF GoodStore, StoreType
    <2>5. Wants(st.queue) \in Abstract!Outcomes(type) \cup {<<"error">>}
        <3>1. <<>> \in Abstract!Outcomes(type)
            BY DEF Abstract!Outcomes, Handled
        <3> QED
            BY <2>2, <2>3, <3>1, ProcessOutcomes
    <2>6. type \in MsgTypes
        BY DEF Handled, MsgTypes
    <2>7. Len(st.queue) <= 2
        BY <2>4, <2>5, <2>6, AtMostTwo
    <2>8. \A i \in Infos : out_queue'[i] \in {out_queue[i], st.queue}
        BY <1>1, <2>2
    <2> QED
        BY <2>7, <2>8 DEF Few
<1>4. CASE Transmit
    <2>1. /\ info \in Infos /\ out_queue[info] # <<>>
          /\ out_queue' = [out_queue EXCEPT ![info] = Tail(out_queue[info])]
        BY <1>4 DEF SInv, IInv, PacketInv, Working, Holding, Transmit
    <2>2. Len(Tail(out_queue[info])) <= 2
        BY <1>1, <2>1 DEF Few
    <2>3. \A i \in Infos : out_queue'[i] \in {out_queue[i], Tail(out_queue[info])}
        BY <1>1, <2>1
    <2> QED
        BY <2>2, <2>3 DEF Few
<1>5. CASE Reboot
    <2>1. \A i \in Infos : out_queue'[i] = <<>>
        BY <1>5 DEF Reboot
    <2> QED
        BY <1>1, <2>1 DEF Few
<1>6. CASE UNCHANGED out_queue
    BY <1>6 DEF Few
<1>7. Client \/ UNCHANGED vars => UNCHANGED out_queue
    BY DEF Client, Connect, Vanish, Send, vars, memory
<1>8. Listen => GetInfo \/ GetInfoGoesOn \/ UNCHANGED out_queue
    BY DEF Listen, Accept, Fill, Enqueue, memory
<1>9. Handle => (\E type \in Handled : Process(type)) \/ Transmit \/ UNCHANGED out_queue
    BY DEF Handle, First, Select, Check, Receive, ReceiveWild, ProcessUnhandled, CloseConn, Close,
           CloseFails, ResetHndl, ReleaseInfo, ReleaseInfoGoesOn, ReleaseKeeps, Release, Drained,
           PollNone, PollAdopt, PollRefuse, memory
<1> QED
    BY <1>2, <1>3, <1>4, <1>5, <1>6, <1>7, <1>8, <1>9 DEF Next

(***************************************************************************)
(* A queue of three is large enough: no reply is lost for want of room in  *)
(* an out_queue (packet_manager.c:61, 74), whatever clients send.          *)
(***************************************************************************)
THEOREM RoomForReplies ==
    ASSUME QueueSize > 2
    PROVE  Spec => []NeverFull
<1>1. Init => Few
    <2> SUFFICES ASSUME Init PROVE Few
        OBVIOUS
    <2>1. \A i \in Infos : out_queue[i] = <<>>
        BY DEF Init
    <2> QED
        BY <2>1 DEF Few
<1>2. SInv /\ Few /\ [Next]_vars => Few'
    BY FewStep
<1>3. SInv /\ Few => NeverFull
    <2> SUFFICES ASSUME SInv, Few, NEW i \in Infos PROVE Len(out_queue[i]) < QueueSize
        BY DEF NeverFull
    <2>1. Len(out_queue[i]) \in Nat /\ Len(out_queue[i]) <= 2
        BY DEF SInv, IInv, TypeOK, Few
    <2> QED
        BY <2>1, QueueAssumption
<1> QED
    BY <1>1, <1>2, <1>3, Strengthened, PTL DEF Spec
=============================================================================
