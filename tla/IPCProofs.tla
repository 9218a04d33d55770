------------------------------ MODULE IPCProofs ------------------------------
(***************************************************************************)
(* Proofs about IPCManager, for any number of processes, threads,          *)
(* messages, message types and filters.  Where a process has one thread,   *)
(* whatever the others have, what it read from its list is still first     *)
(* when it removes it.                                                     *)
(***************************************************************************)
EXTENDS IPCManager, NaturalsInduction, WellFoundedInduction, TLAPS

(* Zenon proves the steps that name no prover. *)
USE Zenon

Single(p) == \A t, u \in Thread : Owner[t] = p /\ Owner[u] = p => t = u
SingleThreaded == \A p \in Process : Single(p)

(* Each statement finds the locals it uses. *)
CallTyped ==
    \A t \in Thread :
        /\ pc[t] \in {"push", "scan"} => call[t] \in SendCall
        /\ pc[t] \in {"remove", "unblock"} => call[t] \in WakeCall
        /\ pc[t] \in {"describe", "block", "get"} => call[t] \in ReceiveCall
        /\ pc[t] \in {"walk", "take"} => call[t] \in SearchCall

(* A removed process has no messages, and its threads do not run. *)
DeadIsEmpty ==
    /\ \A t \in Thread : pc[t] # "stopped" => alive[Owner[t]]
    /\ \A p \in Process : ~alive[p] => /\ ipcMessages[p] = <<>>
                                       /\ sent[p] = 0 /\ got[p] = 0

(* The message a lone receiver looks at is the first of its list; the loop  *)
(* goes past the first only if that is not acceptable, and not past the     *)
(* last.                                                                    *)
Searching(t, stmt, c) ==
    /\ ipcMessages[Owner[t]] # <<>>
    /\ c.msg = ipcMessages[Owner[t]][1]
    /\ c.messageIndex < Len(ipcMessages[Owner[t]])
    /\ c.messageIndex # 0 => ~Acceptable(t, c.msg)
    /\ stmt = "take" => Acceptable(t, c.msg)

SearchesHead ==
    \A t \in Thread :
        Single(Owner[t]) /\ ~Halted /\ pc[t] \in {"walk", "take"} => Searching(t, pc[t], call[t])

LoneInOrder == \A p \in Process : Single(p) => InOrder(p)

IInv == TypeOK /\ CallTyped /\ DeadIsEmpty /\ SearchesHead /\ LoneInOrder
-----------------------------------------------------------------------------
(***************************************************************************)
(* Sequences.                                                              *)
(***************************************************************************)
LEMMA SeqItems ==
  ASSUME NEW S, NEW s \in Seq(S)
  PROVE  /\ Len(s) \in Nat /\ DOMAIN s = 1..Len(s) /\ \A i \in 1..Len(s) : s[i] \in S
         /\ s # <<>> => Len(s) >= 1 /\ Head(s) = s[1]
BY SMT

LEMMA AppendItems ==
  ASSUME NEW S, NEW s \in Seq(S), NEW x \in S
  PROVE  /\ Append(s, x) \in Seq(S) /\ Len(Append(s, x)) = Len(s) + 1
         /\ \A i \in 1..Len(s) : Append(s, x)[i] = s[i]
         /\ Append(s, x)[Len(s) + 1] = x
BY SMT

LEMMA ConcatItems ==
  ASSUME NEW S, NEW a \in Seq(S), NEW b \in Seq(S)
  PROVE  /\ a \o b \in Seq(S) /\ Len(a \o b) = Len(a) + Len(b)
         /\ \A i \in 1..(Len(a) + Len(b)) :
              (a \o b)[i] = IF i <= Len(a) THEN a[i] ELSE b[i - Len(a)]
BY SMT

LEMMA ItemsBefore ==
  ASSUME NEW S, NEW s \in Seq(S), NEW i \in 1..Len(s)
  PROVE  /\ SubSeq(s, 1, i - 1) \in Seq(S) /\ Len(SubSeq(s, 1, i - 1)) = i - 1
         /\ \A k \in 1..(i - 1) : SubSeq(s, 1, i - 1)[k] = s[k]
BY SMT

LEMMA ItemsBehind ==
  ASSUME NEW S, NEW s \in Seq(S), NEW i \in 1..Len(s)
  PROVE  /\ SubSeq(s, i + 1, Len(s)) \in Seq(S) /\ Len(SubSeq(s, i + 1, Len(s))) = Len(s) - i
         /\ \A k \in 1..(Len(s) - i) : SubSeq(s, i + 1, Len(s))[k] = s[i + k]
BY SMT

(* RemoveAt drops one element and keeps the others in their order. *)
LEMMA RemoveAtItems ==
  ASSUME NEW S, NEW s \in Seq(S), NEW i \in 1..Len(s)
  PROVE  /\ RemoveAt(s, i) \in Seq(S)
         /\ Len(RemoveAt(s, i)) = Len(s) - 1
         /\ \A k \in 1..(Len(s) - 1) :
               RemoveAt(s, i)[k] = IF k < i THEN s[k] ELSE s[k + 1]
<1>1. Len(s) \in Nat /\ i \in Int
  BY SMT
<1>2. PICK a : a = SubSeq(s, 1, i - 1)
  OBVIOUS
<1>3. PICK b : b = SubSeq(s, i + 1, Len(s))
  OBVIOUS
<1>4. a \in Seq(S) /\ Len(a) = i - 1 /\ \A k \in 1..(i - 1) : a[k] = s[k]
  BY <1>2, ItemsBefore
<1>5. b \in Seq(S) /\ Len(b) = Len(s) - i /\ \A k \in 1..(Len(s) - i) : b[k] = s[i + k]
  BY <1>3, ItemsBehind
<1>6. /\ a \o b \in Seq(S) /\ Len(a \o b) = Len(a) + Len(b)
      /\ \A k \in 1..(Len(a) + Len(b)) :
            (a \o b)[k] = IF k <= Len(a) THEN a[k] ELSE b[k - Len(a)]
  BY <1>4, <1>5, ConcatItems
<1>7. /\ (i - 1) + (Len(s) - i) = Len(s) - 1
      /\ \A k \in 1..(Len(s) - 1) :
            /\ k <= i - 1 <=> k < i
            /\ k < i => k \in 1..(i - 1)
            /\ ~(k < i) => k - (i - 1) \in 1..(Len(s) - i) /\ i + (k - (i - 1)) = k + 1
  BY <1>1, SMT
<1>8. a \o b \in Seq(S) /\ Len(a \o b) = Len(s) - 1
  BY <1>4, <1>5, <1>6, <1>7
<1>9. ASSUME NEW k \in 1..(Len(s) - 1)
      PROVE  (a \o b)[k] = IF k < i THEN s[k] ELSE s[k + 1]
  <2>1. (a \o b)[k] = IF k < i THEN a[k] ELSE b[k - (i - 1)]
    BY <1>4, <1>5, <1>6, <1>7
  <2> QED
    BY <1>4, <1>5, <1>7, <2>1
<1> QED
  BY <1>2, <1>3, <1>8, <1>9 DEF RemoveAt

(* A non-empty set of natural numbers has a least element. *)
LEMMA LeastNat ==
  ASSUME NEW S \in SUBSET Nat, S # {}
  PROVE  \E n \in S : \A m \in S : n <= m
<1>1. IsWellFoundedOn(OpToRel(<, Nat), Nat)
  BY NatLessThanWellFounded
<1>2. PICK n \in S : \A m \in S : ~(<<m, n>> \in OpToRel(<, Nat))
  BY <1>1, WFMin
<1>3. ASSUME NEW m \in S
      PROVE  n <= m
  <2>1. ~(m < n)
    BY <1>2 DEF OpToRel
  <2>2. m \in Nat /\ n \in Nat
    OBVIOUS
  <2> QED
    BY <2>1, <2>2, SMT
<1> QED
  BY <1>3
-----------------------------------------------------------------------------
LEMMA InitIInv == Init => IInv
<1> SUFFICES ASSUME Init
             PROVE  IInv
  OBVIOUS
<1>1. NoCall \in ReceiveCall
  BY DEF NoCall, ReceiveCall
<1>2. TypeOK
  <2>1. life \in [Process -> 1..MaxLife]
    BY IPCAssumption, SMT DEF Init
  <2>2. /\ ipcMessages \in [Process -> Seq(Message)]
        /\ receivingBlockedList \in Seq(IPCReceiveDescriptor)
    BY SMT DEF Init
  <2>3. call \in [Thread -> SendCall \cup WakeCall \cup ReceiveCall \cup SearchCall]
    BY <1>1 DEF Init
  <2>4. /\ alive \in [Process -> BOOLEAN] /\ blocked \in [Thread -> BOOLEAN]
        /\ sent \in [Process -> Nat] /\ got \in [Process -> Nat]
        /\ panicked \in BOOLEAN /\ wildWrite \in BOOLEAN
    BY DEF Init
  <2>5. pc \in [Thread -> {"stopped", "user", "push", "scan", "remove", "unblock",
                           "describe", "block", "get", "walk", "take"}]
    BY DEF Init
  <2> QED
    BY <2>1, <2>2, <2>3, <2>4, <2>5 DEF TypeOK
<1>3. CallTyped /\ SearchesHead
  BY DEF Init, CallTyped, SearchesHead
<1>4. DeadIsEmpty
  BY IPCAssumption DEF Init, DeadIsEmpty
<1>5. LoneInOrder
  BY SMT DEF Init, LoneInOrder, InOrder
<1> QED
  BY <1>2, <1>3, <1>4, <1>5 DEF IInv

(* The threads of a process are fixed. *)
LEMMA SingleFixed ==
  ASSUME NEW p
  PROVE  Single(p)' <=> Single(p)
BY DEF Single

(***************************************************************************)
(* The statements that touch neither processes nor messages: the thread    *)
(* goes on to statement stmt with locals c.                                *)
(***************************************************************************)
LEMMA LocalStep ==
  ASSUME IInv, NEW t \in Thread, pc[t] # "stopped", ~Halted,
         NEW stmt \in {"user", "push", "scan", "remove", "unblock",
                       "describe", "block", "get", "walk", "take"},
         NEW c, Goto(t, stmt, c),
         stmt = "user" => c \in ReceiveCall,
         stmt \in {"push", "scan"} => c \in SendCall,
         stmt \in {"remove", "unblock"} => c \in WakeCall,
         stmt \in {"describe", "block", "get"} => c \in ReceiveCall,
         stmt \in {"walk", "take"} => c \in SearchCall,
         stmt \in {"walk", "take"} /\ Single(Owner[t]) /\ ~Halted' => Searching(t, stmt, c)',
         UNCHANGED <<alive, life, ipcMessages, sent, got>>,
         receivingBlockedList' \in Seq(IPCReceiveDescriptor),
         blocked' \in [Thread -> BOOLEAN],
         panicked' \in BOOLEAN, wildWrite' \in BOOLEAN
  PROVE  IInv'
<1>0. TypeOK /\ CallTyped /\ DeadIsEmpty /\ SearchesHead /\ LoneInOrder
  BY DEF IInv
<1>1. /\ pc' = [pc EXCEPT ![t] = stmt] /\ call' = [call EXCEPT ![t] = c]
      /\ pc'[t] = stmt /\ call'[t] = c
      /\ \A u \in Thread \ {t} : pc'[u] = pc[u] /\ call'[u] = call[u]
  BY <1>0 DEF Goto, TypeOK
<1>2. TypeOK'
  <2>1. c \in SendCall \cup WakeCall \cup ReceiveCall \cup SearchCall
    OBVIOUS
  <2>2. call' \in [Thread -> SendCall \cup WakeCall \cup ReceiveCall \cup SearchCall]
    BY <1>0, <1>1, <2>1 DEF TypeOK
  <2> QED
    BY <1>0, <1>1, <2>2 DEF TypeOK
<1>3. CallTyped'
  BY <1>0, <1>1 DEF CallTyped
<1>4. DeadIsEmpty' /\ LoneInOrder'
  BY <1>0, <1>1, SingleFixed DEF DeadIsEmpty, LoneInOrder, InOrder
<1>5. SearchesHead'
  <2> SUFFICES ASSUME NEW u \in Thread, Single(Owner[u]), ~Halted', pc'[u] \in {"walk", "take"}
               PROVE  Searching(u, pc[u], call[u])'
    BY SingleFixed DEF SearchesHead
  <2>1. CASE u = t
    BY <1>1, <2>1
  <2>2. CASE u # t
    <3>1. Searching(u, pc[u], call[u])
      BY <1>0, <1>1, <2>2 DEF SearchesHead
    <3> QED
      BY <1>1, <2>2, <3>1 DEF Searching, Acceptable, Id
  <2> QED
    BY <2>1, <2>2
<1> QED
  BY <1>2, <1>3, <1>4, <1>5 DEF IInv

LEMMA IdTyped ==
  ASSUME TypeOK, NEW p \in Process
  PROVE  Id(p) \in Pid
  BY DEF TypeOK, Id, Pid

LEMMA NoCallTyped == NoCall \in ReceiveCall
  BY DEF NoCall, ReceiveCall

LEMMA SendIInv ==
  ASSUME IInv, NEW t \in Thread, NEW p \in Process, NEW ty \in Type, Send(t, p, ty)
  PROVE  IInv'
<1>1. TypeOK /\ pc[t] # "stopped" /\ ~Halted
  BY DEF IInv, Send, At
<1>2. PICK c : /\ Goto(t, "push", c)
               /\ c = [to |-> p, msg |-> [source |-> Id(Owner[t]), dest |-> Id(p),
                                          type |-> ty]]
  BY DEF Send
<1>3. Id(Owner[t]) \in Pid /\ Id(p) \in Pid
  BY <1>1, IdTyped, IPCAssumption
<1>4. c \in SendCall
  BY <1>2, <1>3 DEF SendCall
<1> QED
  BY <1>1, <1>2, <1>4, LocalStep DEF Send, TypeOK

LEMMA ScanIInv ==
  ASSUME IInv, NEW t \in Thread, Scan(t)
  PROVE  IInv'
<1> DEFINE matching == {i \in DOMAIN receivingBlockedList :
                          Wants(receivingBlockedList[i], call[t].to, call[t].msg)}
           first == CHOOSE k \in matching : \A j \in matching : k <= j
           c == [i |-> first, receivingThread |-> receivingBlockedList[first].receivingThread]
<1>1. TypeOK /\ pc[t] # "stopped" /\ ~Halted
  BY DEF IInv, Scan, At
<1>2. UNCHANGED <<alive, life, ipcMessages, receivingBlockedList, blocked, panicked,
                  wildWrite, sent, got>>
  BY DEF Scan
<1>3. CASE matching = {}
  <2>1. Goto(t, "user", NoCall)
    BY <1>3 DEF Scan, Return
  <2> QED
    BY <1>1, <1>2, <2>1, NoCallTyped, LocalStep DEF TypeOK
<1>4. CASE matching # {}
  <2>1. Goto(t, "remove", c)
    BY <1>4 DEF Scan
  <2>2. receivingBlockedList \in Seq(IPCReceiveDescriptor)
    BY <1>1 DEF TypeOK
  <2>3. first \in matching
    <3>1. \E k \in matching : \A j \in matching : k <= j
      <4>1. matching \in SUBSET Nat
        BY <2>2, SeqItems, SMT
      <4> QED
        BY <1>4, <4>1, LeastNat
    <3> QED
      BY <3>1
  <2>4. first \in DOMAIN receivingBlockedList
    BY <2>3
  <2>5. first \in Nat /\ receivingBlockedList[first] \in IPCReceiveDescriptor
    <3> HIDE DEF first
    <3> QED
      BY <2>2, <2>4, SeqItems, SMT
  <2>6. c \in WakeCall
    <3> HIDE DEF first
    <3> QED
      BY <2>5 DEF WakeCall, IPCReceiveDescriptor
  <2> HIDE DEF c
  <2> QED
    BY <1>1, <1>2, <2>1, <2>6, LocalStep DEF TypeOK
<1> QED
  BY <1>3, <1>4

LEMMA RemoveDescriptorIInv ==
  ASSUME IInv, NEW t \in Thread, RemoveDescriptor(t)
  PROVE  IInv'
<1>1. TypeOK /\ pc[t] # "stopped" /\ ~Halted
  BY DEF IInv, RemoveDescriptor, At
<1>2. call[t] \in WakeCall
  BY DEF IInv, CallTyped, RemoveDescriptor, At
<1>3. receivingBlockedList \in Seq(IPCReceiveDescriptor)
  BY <1>1 DEF TypeOK
<1>4. receivingBlockedList' \in Seq(IPCReceiveDescriptor)
  <2>1. CASE call[t].i \in DOMAIN receivingBlockedList
    <3>1. call[t].i \in 1..Len(receivingBlockedList)
      BY <1>3, <2>1, SeqItems
    <3>2. RemoveAt(receivingBlockedList, call[t].i) \in Seq(IPCReceiveDescriptor)
      BY <1>3, <3>1, RemoveAtItems
    <3> QED
      BY <2>1, <3>2 DEF RemoveDescriptor
  <2>2. CASE call[t].i \notin DOMAIN receivingBlockedList
    BY <1>3, <2>2 DEF RemoveDescriptor
  <2> QED
    BY <2>1, <2>2
<1>5. panicked' \in BOOLEAN
  BY SMT DEF RemoveDescriptor
<1>6. /\ Goto(t, "unblock", call[t])
      /\ UNCHANGED <<alive, life, ipcMessages, blocked, wildWrite, sent, got>>
  BY DEF RemoveDescriptor
<1> QED
  BY <1>1, <1>2, <1>4, <1>5, <1>6, LocalStep DEF TypeOK

LEMMA UnblockReceiverIInv ==
  ASSUME IInv, NEW t \in Thread, UnblockReceiver(t)
  PROVE  IInv'
<1>1. TypeOK /\ pc[t] # "stopped" /\ ~Halted
  BY DEF IInv, UnblockReceiver, At
<1>2. blocked' \in [Thread -> BOOLEAN]
  BY <1>1 DEF UnblockReceiver, TypeOK
<1>3. wildWrite' \in BOOLEAN
  BY DEF UnblockReceiver
<1>4. /\ Goto(t, "user", NoCall)
      /\ UNCHANGED <<alive, life, ipcMessages, receivingBlockedList, panicked, sent, got>>
  BY DEF UnblockReceiver, Return
<1> QED
  BY <1>1, <1>2, <1>3, <1>4, NoCallTyped, LocalStep DEF TypeOK

LEMMA ReceiveIInv ==
  ASSUME IInv, NEW t \in Thread, NEW f \in FromFilter, NEW ty \in TypeFilter,
         Receive(t, f, ty)
  PROVE  IInv'
<1>1. TypeOK /\ pc[t] # "stopped" /\ ~Halted
  BY DEF IInv, Receive, At
<1>2. PICK c : c = [from |-> IF f = Unrestricted THEN Unrestricted ELSE Id(f),
                  type |-> ty]
  OBVIOUS
<1>3. PICK stmt \in {"describe", "get"} : Goto(t, stmt, c)
  BY <1>2 DEF Receive
<1>4. (IF f = Unrestricted THEN Unrestricted ELSE Id(f)) \in Pid \cup {Unrestricted}
  BY <1>1, IdTyped, IPCAssumption
<1>5. c \in ReceiveCall
  BY <1>2, <1>4, IPCAssumption DEF ReceiveCall
<1> QED
  BY <1>1, <1>3, <1>5, LocalStep DEF Receive, TypeOK

LEMMA DescribeIInv ==
  ASSUME IInv, NEW t \in Thread, Describe(t)
  PROVE  IInv'
<1>1. TypeOK /\ pc[t] # "stopped" /\ ~Halted
  BY DEF IInv, Describe, At
<1>2. call[t] \in ReceiveCall
  BY DEF IInv, CallTyped, Describe, At
<1>3. receivingBlockedList' \in Seq(IPCReceiveDescriptor)
  <2>1. [receivingProcess |-> Owner[t], receivingThread |-> t,
         receiveFromPID |-> call[t].from, receiveType |-> call[t].type]
           \in IPCReceiveDescriptor
    BY <1>2, IPCAssumption DEF IPCReceiveDescriptor, ReceiveCall
  <2> QED
    BY <1>1, <2>1, AppendItems DEF Describe, TypeOK
<1> QED
  BY <1>1, <1>2, <1>3, LocalStep DEF Describe, TypeOK

LEMMA BlockIInv ==
  ASSUME IInv, NEW t \in Thread, Block(t)
  PROVE  IInv'
<1>1. TypeOK /\ pc[t] # "stopped" /\ ~Halted
  BY DEF IInv, Block, At
<1>2. call[t] \in ReceiveCall
  BY DEF IInv, CallTyped, Block, At
<1>3. blocked' \in [Thread -> BOOLEAN]
  BY <1>1 DEF Block, TypeOK
<1> QED
  BY <1>1, <1>2, <1>3, LocalStep DEF Block, TypeOK

LEMMA GetFirstIInv ==
  ASSUME IInv, NEW t \in Thread, GetFirst(t)
  PROVE  IInv'
<1>1. TypeOK /\ pc[t] # "stopped" /\ ~Halted
  BY DEF IInv, GetFirst, At
<1>2. call[t] \in ReceiveCall
  BY DEF IInv, CallTyped, GetFirst, At
<1>3. ipcMessages[Owner[t]] \in Seq(Message)
  BY <1>1, IPCAssumption DEF TypeOK
<1>4. CASE ipcMessages[Owner[t]] = <<>>
  <2>1. panicked' = TRUE /\ UNCHANGED <<alive, life, ipcMessages, receivingBlockedList,
           blocked, pc, call, wildWrite, sent, got>>
    BY <1>4 DEF GetFirst
  <2>2. TypeOK' /\ CallTyped' /\ DeadIsEmpty' /\ LoneInOrder'
    BY <2>1, SingleFixed DEF IInv, TypeOK, CallTyped, DeadIsEmpty, LoneInOrder, InOrder
  <2>3. SearchesHead'
    BY <2>1 DEF SearchesHead, Halted
  <2> QED
    BY <2>2, <2>3 DEF IInv
<1>5. CASE ipcMessages[Owner[t]] # <<>>
  <2>1. PICK c : /\ Goto(t, "walk", c)
                 /\ c = [from |-> call[t].from, type |-> call[t].type,
                         msg |-> Head(ipcMessages[Owner[t]]), messageIndex |-> 0]
    BY <1>5 DEF GetFirst
  <2>2. /\ Head(ipcMessages[Owner[t]]) = ipcMessages[Owner[t]][1]
        /\ Head(ipcMessages[Owner[t]]) \in Message
        /\ 0 < Len(ipcMessages[Owner[t]])
    BY <1>3, <1>5, SeqItems, SMT
  <2>3. c \in SearchCall
    BY <1>2, <2>1, <2>2 DEF SearchCall, ReceiveCall
  <2>4. UNCHANGED <<alive, life, ipcMessages, receivingBlockedList, blocked,
                    panicked, wildWrite, sent, got>>
    BY <1>5 DEF GetFirst
  <2>5. Searching(t, "walk", c)'
    BY <1>5, <2>1, <2>2, <2>4 DEF Searching
  <2> QED
    BY <1>1, <2>1, <2>3, <2>4, <2>5, LocalStep DEF TypeOK
<1> QED
  BY <1>4, <1>5

LEMMA WalkLone ==
  ASSUME IInv, NEW t \in Thread, Walk(t), Single(Owner[t])
  PROVE  IInv'
<1> DEFINE messages == ipcMessages[Owner[t]]
           k == call[t].messageIndex
<1>1. TypeOK /\ pc[t] = "walk" /\ ~Halted
  BY DEF IInv, Walk, At
<1>2. call[t] \in SearchCall
  BY <1>1 DEF IInv, CallTyped
<1>3. messages \in Seq(Message)
  BY <1>1, IPCAssumption DEF TypeOK
<1>4. Searching(t, "walk", call[t])
  BY <1>1 DEF IInv, SearchesHead
<1>5. k \in Nat /\ Len(messages) \in Nat /\ k < Len(messages)
  BY <1>2, <1>3, <1>4, SeqItems DEF SearchCall, Searching
<1>6. UNCHANGED <<alive, life, ipcMessages, receivingBlockedList, blocked,
                  wildWrite, sent, got>>
  BY DEF Walk
<1>7. CASE ~Acceptable(t, call[t].msg)
  <2>1. /\ call' = [call EXCEPT ![t].messageIndex = k + 1]
        /\ panicked' = (k + 1 >= Len(messages))
        /\ pc' = pc
    BY <1>5, <1>7, SMT DEF Walk
  <2>2. PICK c : c = [call[t] EXCEPT !.messageIndex = k + 1]
    OBVIOUS
  <2>3. /\ c \in SearchCall /\ c.messageIndex = k + 1 /\ c.msg = call[t].msg
        /\ c.from = call[t].from /\ c.type = call[t].type
    BY <1>2, <1>5, <2>2, SMT DEF SearchCall
  <2>4. Goto(t, "walk", c)
    BY <1>1, <2>1, <2>2 DEF Goto, TypeOK
  <2>5. call'[t] = c
    BY <1>1, <2>4 DEF Goto, TypeOK
  <2>6. ASSUME ~Halted'
        PROVE  Searching(t, "walk", c)'
    <3>1. k + 1 < Len(messages)
      <4>1. ~panicked'
        BY <2>6 DEF Halted
      <4>2. ~(k + 1 >= Len(messages))
        BY <2>1, <4>1
      <4> QED
        BY <1>5, <4>2, SMT
    <3>2. ~Acceptable(t, c.msg)'
      BY <1>6, <1>7, <2>3, <2>5 DEF Acceptable, Id
    <3> QED
      BY <1>4, <1>6, <2>3, <3>1, <3>2 DEF Searching
  <2>7. panicked' \in BOOLEAN
    BY <2>1, SMT
  <2> QED
    BY <1>1, <1>6, <2>3, <2>4, <2>6, <2>7, LocalStep DEF TypeOK
<1>8. CASE Acceptable(t, call[t].msg)
  <2>1. Goto(t, "take", call[t]) /\ panicked' = panicked
    BY <1>5, <1>8, SMT DEF Walk
  <2>2. call'[t] = call[t]
    BY <1>1, <2>1 DEF Goto, TypeOK
  <2>3. Acceptable(t, call[t].msg)'
    BY <1>6, <1>8, <2>2 DEF Acceptable, Id
  <2>4. PICK c : c = call[t]
    OBVIOUS
  <2>5. Acceptable(t, c.msg)'
    BY <2>2, <2>3, <2>4
  <2>6. Searching(t, "take", c)'
    BY <1>4, <1>6, <1>8, <2>4, <2>5 DEF Searching
  <2> QED
    BY <1>1, <1>2, <1>6, <2>1, <2>4, <2>6, LocalStep DEF TypeOK
<1> QED
  BY <1>7, <1>8

LEMMA WalkIInv ==
  ASSUME IInv, NEW t \in Thread, Walk(t)
  PROVE  IInv'
<1> DEFINE n == Len(ipcMessages[Owner[t]])
           k == call[t].messageIndex
<1>1. TypeOK /\ pc[t] = "walk" /\ ~Halted
  BY DEF IInv, Walk, At
<1>2. call[t] \in SearchCall
  BY <1>1 DEF IInv, CallTyped
<1>3. CASE Single(Owner[t])
  BY <1>3, WalkLone
<1>4. CASE ~Single(Owner[t])
  <2>1. UNCHANGED <<alive, life, ipcMessages, receivingBlockedList, blocked, wildWrite, sent, got>>
    BY DEF Walk
  <2>2. CASE pc' = pc
    <3>1. call' = [call EXCEPT ![t].messageIndex = k + 1] /\ panicked' = (k + 1 >= n)
      BY <1>1, <2>2, SMT DEF Walk, Return, Goto, TypeOK
    <3>2. PICK c : c = [call[t] EXCEPT !.messageIndex = k + 1]
      OBVIOUS
    <3>3. c \in SearchCall /\ panicked' \in BOOLEAN
      BY <1>2, <3>1, <3>2, SMT DEF SearchCall
    <3>4. Goto(t, "walk", c)
      BY <1>1, <2>2, <3>1, <3>2 DEF Goto, TypeOK
    <3> QED
      BY <1>1, <1>4, <2>1, <3>3, <3>4, LocalStep DEF TypeOK
  <2>3. CASE Goto(t, "user", NoCall) /\ panicked' = panicked
    BY <1>1, <2>1, <2>3, NoCallTyped, LocalStep DEF TypeOK
  <2>4. CASE Goto(t, "take", call[t]) /\ panicked' = panicked
    <3>1. PICK c : c = call[t]
      OBVIOUS
    <3> QED
      BY <1>1, <1>2, <1>4, <2>1, <2>4, <3>1, LocalStep DEF TypeOK
  <2> QED
    BY <2>2, <2>3, <2>4 DEF Walk, Return
<1> QED
  BY <1>3, <1>4

LEMMA PushIInv ==
  ASSUME IInv, NEW t \in Thread, Push(t)
  PROVE  IInv'
<1>1. /\ TypeOK /\ CallTyped /\ DeadIsEmpty /\ SearchesHead /\ LoneInOrder
      /\ pc[t] = "push" /\ ~Halted
  BY DEF IInv, Push, At
<1>2. PICK p \in Process : p = call[t].to /\ call[t] \in SendCall
  BY <1>1 DEF CallTyped, SendCall
<1>3. Goto(t, "scan", call[t]) /\ UNCHANGED <<alive, life, receivingBlockedList,
         blocked, panicked, got>>
  BY DEF Push
<1>4. CASE ~alive[p]
  <2>1. UNCHANGED <<ipcMessages, sent>> /\ wildWrite' = TRUE
    BY <1>2, <1>4 DEF Push
  <2>2. Halted'
    BY <2>1 DEF Halted
  <2> QED
    BY <1>1, <1>2, <1>3, <2>1, <2>2, LocalStep DEF TypeOK
<1>5. CASE alive[p]
  <2>1. PICK m : m = [source |-> call[t].msg.source, dest |-> call[t].msg.dest,
                      type |-> call[t].msg.type, number |-> sent[p] + 1]
    OBVIOUS
  <2>2. /\ ipcMessages' = [ipcMessages EXCEPT ![p] = Append(@, m)]
        /\ sent' = [sent EXCEPT ![p] = @ + 1]
        /\ wildWrite' = wildWrite
    BY <1>2, <1>5, <2>1 DEF Push
  <2>3. sent[p] \in Nat /\ got[p] \in Nat
    BY <1>1 DEF TypeOK
  <2>4. m \in Message /\ m.number = sent[p] + 1
    <3>1. call[t].msg \in [source : Pid, dest : Pid, type : Type]
      BY <1>2 DEF SendCall
    <3>2. call[t].msg.source \in Pid /\ call[t].msg.dest \in Pid /\ call[t].msg.type \in Type
      BY <3>1
    <3>3. sent[p] + 1 \in Nat
      BY <2>3, SMT
    <3> QED
      BY <2>1, <3>2, <3>3 DEF Message
  <2>5. ipcMessages[p] \in Seq(Message)
    BY <1>1 DEF TypeOK
  <2>6. /\ ipcMessages'[p] = Append(ipcMessages[p], m)
        /\ \A q \in Process \ {p} : ipcMessages'[q] = ipcMessages[q]
        /\ sent'[p] = sent[p] + 1
        /\ \A q \in Process \ {p} : sent'[q] = sent[q]
    BY <1>1, <2>2 DEF TypeOK
  <2>7. /\ Append(ipcMessages[p], m) \in Seq(Message)
        /\ Len(Append(ipcMessages[p], m)) = Len(ipcMessages[p]) + 1
        /\ \A i \in 1..Len(ipcMessages[p]) :
              Append(ipcMessages[p], m)[i] = ipcMessages[p][i]
        /\ Append(ipcMessages[p], m)[Len(ipcMessages[p]) + 1] = m
        /\ Len(ipcMessages[p]) \in Nat
    BY <2>4, <2>5, AppendItems, SeqItems, SMT
  <2>8. /\ pc'[t] = "scan" /\ call' = call
        /\ \A u \in Thread \ {t} : pc'[u] = pc[u]
    BY <1>1, <1>3 DEF Goto, TypeOK
  <2>9. TypeOK'
    <3>1. ipcMessages' \in [Process -> Seq(Message)]
      BY <1>1, <2>2, <2>7 DEF TypeOK
    <3>2. sent' \in [Process -> Nat]
      BY <1>1, <2>2, SMT DEF TypeOK
    <3>3. pc' \in [Thread -> {"stopped", "user", "push", "scan", "remove", "unblock",
                              "describe", "block", "get", "walk", "take"}]
      BY <1>1, <1>3 DEF TypeOK, Goto
    <3> QED
      BY <1>1, <1>3, <2>2, <2>8, <3>1, <3>2, <3>3 DEF TypeOK
  <2>10. CallTyped'
    BY <1>1, <1>2, <2>8 DEF CallTyped
  <2>11. DeadIsEmpty'
    BY <1>1, <1>3, <1>5, <2>6, <2>8 DEF DeadIsEmpty
  <2>12. SearchesHead'
    <3> SUFFICES ASSUME NEW u \in Thread, Single(Owner[u]), ~Halted', pc'[u] \in {"walk", "take"}
                 PROVE  Searching(u, pc[u], call[u])'
      BY SingleFixed DEF SearchesHead
    <3>1. u # t /\ pc'[u] = pc[u]
      BY <2>8
    <3>2. Searching(u, pc[u], call[u]) /\ call[u] \in SearchCall
      BY <1>1, <3>1 DEF SearchesHead, CallTyped
    <3>3. /\ Acceptable(u, call[u].msg)' <=> Acceptable(u, call[u].msg)
      BY <1>3, <2>8 DEF Acceptable, Id
    <3>4. CASE Owner[u] # p
      BY <2>6, <2>8, <3>1, <3>2, <3>3, <3>4, IPCAssumption DEF Searching
    <3>5. CASE Owner[u] = p
      <4>1. ipcMessages[p] # <<>> /\ Len(ipcMessages[p]) >= 1
        <5>1. ipcMessages[p] # <<>>
          BY <3>2, <3>5 DEF Searching
        <5> QED
          BY <2>5, <5>1, SeqItems, SMT
      <4>2. /\ ipcMessages'[p][1] = ipcMessages[p][1]
            /\ Len(ipcMessages'[p]) = Len(ipcMessages[p]) + 1
            /\ ipcMessages'[p] # <<>>
        BY <2>5, <2>6, <2>7, <4>1, SMT
      <4>3. call[u].messageIndex < Len(ipcMessages'[p])
        BY <2>7, <3>2, <3>5, <4>2, SMT DEF Searching, SearchCall
      <4> QED
        BY <2>8, <3>1, <3>2, <3>3, <3>5, <4>2, <4>3 DEF Searching
    <3> QED
      BY <3>4, <3>5
  <2>13. LoneInOrder'
    <3> SUFFICES ASSUME NEW q \in Process, Single(q)
                 PROVE  /\ Len(ipcMessages'[q]) = sent'[q] - got'[q]
                        /\ \A i \in DOMAIN ipcMessages'[q] :
                              ipcMessages'[q][i].number = got'[q] + i
      BY SingleFixed DEF LoneInOrder, InOrder
    <3>1. /\ Len(ipcMessages[q]) = sent[q] - got[q]
          /\ \A i \in DOMAIN ipcMessages[q] : ipcMessages[q][i].number = got[q] + i
      BY <1>1 DEF LoneInOrder, InOrder
    <3>2. CASE q # p
      BY <1>3, <2>6, <3>1, <3>2
    <3>3. CASE q = p
      <4>1. Len(ipcMessages'[p]) = sent'[p] - got'[p]
        <5>1. Len(ipcMessages'[p]) = Len(ipcMessages[p]) + 1
          BY <2>6, <2>7
        <5>2. Len(ipcMessages[p]) = sent[p] - got[p] /\ got'[p] = got[p]
          BY <1>3, <3>1, <3>3
        <5> QED
          BY <2>3, <2>6, <5>1, <5>2, SMT
      <4>2. ASSUME NEW i \in DOMAIN ipcMessages'[p]
            PROVE  ipcMessages'[p][i].number = got'[p] + i
        <5>1. i \in 1..(Len(ipcMessages[p]) + 1)
          <6>1. DOMAIN Append(ipcMessages[p], m) = 1..Len(Append(ipcMessages[p], m))
            BY <2>7, SeqItems
          <6> QED
            BY <2>6, <2>7, <6>1
        <5>2. CASE i = Len(ipcMessages[p]) + 1
          <6>1. ipcMessages'[p][i] = m
            BY <2>6, <2>7, <5>2
          <6>2. m.number = got[p] + i
            <7>1. Len(ipcMessages[p]) = sent[p] - got[p] /\ Len(ipcMessages[p]) \in Nat
              BY <2>7, <3>1, <3>3
            <7>2. sent[p] + 1 = got[p] + (Len(ipcMessages[p]) + 1)
              BY <2>3, <7>1, SMT
            <7> QED
              BY <2>4, <5>2, <7>2
          <6> QED
            BY <1>3, <6>1, <6>2
        <5>3. CASE i # Len(ipcMessages[p]) + 1
          <6>1. i \in 1..Len(ipcMessages[p]) /\ i \in DOMAIN ipcMessages[p]
            BY <2>5, <2>7, <5>1, <5>3, SeqItems, SMT
          <6> QED
            BY <1>3, <2>6, <2>7, <3>1, <3>3, <6>1
        <5> QED
          BY <5>2, <5>3
      <4> QED
        BY <3>3, <4>1, <4>2
    <3> QED
      BY <3>2, <3>3
  <2> QED
    BY <2>9, <2>10, <2>11, <2>12, <2>13 DEF IInv
<1> QED
  BY <1>4, <1>5

LEMMA NextNumber ==
  ASSUME NEW g \in Nat, NEW i \in Int
  PROVE  g + (i + 1) = (g + 1) + i
  BY SMT

LEMMA TakeIInv ==
  ASSUME IInv, NEW t \in Thread, Take(t)
  PROVE  IInv'
<1>1. /\ TypeOK /\ CallTyped /\ DeadIsEmpty /\ SearchesHead /\ LoneInOrder
      /\ pc[t] = "take" /\ ~Halted
  BY DEF IInv, Take, At
<1>2. PICK p \in Process : p = Owner[t]
  BY IPCAssumption
<1>3. PICK old \in Seq(Message) : old = ipcMessages[p]
  BY <1>1 DEF TypeOK
<1>4. call[t] \in SearchCall /\ (Single(p) => Searching(t, "take", call[t]))
  BY <1>1, <1>2 DEF CallTyped, SearchesHead
<1>5. PICK i : i = call[t].messageIndex + 1
  OBVIOUS
<1>6. PICK rest : rest = IF i \in DOMAIN old THEN RemoveAt(old, i) ELSE old
  OBVIOUS
<1>7. /\ ipcMessages' = [ipcMessages EXCEPT ![p] = rest]
      /\ got' = [got EXCEPT ![p] = call[t].msg.number]
      /\ panicked' = (i > Len(old) + 1)
      /\ Goto(t, "user", NoCall)
      /\ UNCHANGED <<alive, life, receivingBlockedList, blocked, wildWrite, sent>>
  BY <1>2, <1>3, <1>5, <1>6 DEF Take, Return
<1>8. /\ ipcMessages'[p] = rest /\ got'[p] = call[t].msg.number
      /\ \A q \in Process \ {p} : ipcMessages'[q] = ipcMessages[q] /\ got'[q] = got[q]
  BY <1>1, <1>7 DEF TypeOK
<1>9. /\ pc'[t] = "user" /\ call'[t] = NoCall
      /\ \A u \in Thread \ {t} : pc'[u] = pc[u] /\ call'[u] = call[u]
  BY <1>1, <1>7 DEF Goto, TypeOK
<1>10. sent[p] \in Nat /\ got[p] \in Nat /\ call[t].msg.number \in Nat
  BY <1>1, <1>4 DEF TypeOK, SearchCall, Message
<1>11. rest \in Seq(Message)
  <2>1. CASE i \in DOMAIN old
    <3>1. i \in 1..Len(old)
      BY <1>3, <2>1, SeqItems
    <3> QED
      BY <1>3, <1>6, <2>1, <3>1, RemoveAtItems
  <2>2. CASE i \notin DOMAIN old
    BY <1>3, <1>6, <2>2
  <2> QED
    BY <2>1, <2>2
<1>12. TypeOK'
  <2>1. ipcMessages' \in [Process -> Seq(Message)] /\ got' \in [Process -> Nat]
    BY <1>1, <1>7, <1>10, <1>11 DEF TypeOK
  <2>2. /\ pc' \in [Thread -> {"stopped", "user", "push", "scan", "remove", "unblock",
                               "describe", "block", "get", "walk", "take"}]
        /\ call' \in [Thread -> SendCall \cup WakeCall \cup ReceiveCall \cup SearchCall]
    BY <1>1, <1>7, NoCallTyped DEF TypeOK, Goto
  <2>3. panicked' \in BOOLEAN
    BY <1>7, SMT
  <2> QED
    BY <1>1, <1>7, <2>1, <2>2, <2>3 DEF TypeOK
<1>13. CallTyped'
  BY <1>1, <1>9 DEF CallTyped
<1>14. DeadIsEmpty'
  <2>1. alive[p]
    BY <1>1, <1>2 DEF DeadIsEmpty
  <2> QED
    BY <1>1, <1>7, <1>8, <1>9, <2>1, ZenonT(30) DEF DeadIsEmpty
<1>15. SearchesHead'
  <2> SUFFICES ASSUME NEW u \in Thread, Single(Owner[u]), ~Halted', pc'[u] \in {"walk", "take"}
               PROVE  Searching(u, pc[u], call[u])'
    BY SingleFixed DEF SearchesHead
  <2>1. u # t /\ pc'[u] = pc[u] /\ call'[u] = call[u]
    BY <1>9
  <2>2. Owner[u] \in Process \ {p}
    BY <1>2, <2>1, IPCAssumption DEF Single
  <2>3. Searching(u, pc[u], call[u])
    BY <1>1, <2>1 DEF SearchesHead
  <2>4. Acceptable(u, call[u].msg)' <=> Acceptable(u, call[u].msg)
    BY <1>7, <2>1 DEF Acceptable, Id
  <2> QED
    BY <1>8, <2>1, <2>2, <2>3, <2>4 DEF Searching
<1>16. ASSUME Single(p)
       PROVE  InOrder(p)'
  <2>1. InOrder(p) /\ Searching(t, "take", call[t])
    BY <1>1, <1>4, <1>16 DEF LoneInOrder
  <2>2. call[t].messageIndex = 0 /\ call[t].msg = old[1] /\ old # <<>>
    BY <1>2, <1>3, <2>1 DEF Searching
  <2>3. Len(old) \in Nat /\ Len(old) >= 1 /\ DOMAIN old = 1..Len(old)
    BY <1>3, <2>2, SeqItems, SMT
  <2>4. i = 1 /\ 1 \in 1..Len(old) /\ \A k \in 1..(Len(old) - 1) : ~(k < 1)
    BY <1>5, <2>2, <2>3, SMT
  <2>5. /\ Len(rest) = Len(old) - 1
        /\ \A k \in 1..(Len(old) - 1) : rest[k] = old[k + 1]
    <3>1. rest = RemoveAt(old, 1)
      BY <1>6, <2>3, <2>4
    <3>2. /\ Len(RemoveAt(old, 1)) = Len(old) - 1
          /\ \A k \in 1..(Len(old) - 1) :
                RemoveAt(old, 1)[k] = IF k < 1 THEN old[k] ELSE old[k + 1]
      BY <1>3, <2>4, RemoveAtItems
    <3> QED
      BY <2>4, <3>1, <3>2
  <2>6. /\ Len(old) = sent[p] - got[p]
        /\ \A k \in 1..Len(old) : old[k].number = got[p] + k
    BY <1>3, <2>1, <2>3 DEF InOrder
  <2>7. got'[p] = got[p] + 1 /\ sent'[p] = sent[p]
    BY <1>7, <1>8, <2>2, <2>4, <2>6
  <2>8. Len(ipcMessages'[p]) = sent'[p] - got'[p]
    <3>1. Len(ipcMessages'[p]) = Len(old) - 1
      BY <1>8, <2>5
    <3> QED
      BY <1>10, <2>6, <2>7, <3>1, SMT
  <2>9. ASSUME NEW k \in DOMAIN ipcMessages'[p]
        PROVE  ipcMessages'[p][k].number = got'[p] + k
    <3>1. k \in 1..(Len(old) - 1)
      BY <1>8, <1>11, <2>5, SeqItems
    <3>2. k + 1 \in 1..Len(old) /\ k \in Int
      BY <2>3, <3>1, SMT
    <3>3. ipcMessages'[p][k].number = got[p] + (k + 1)
      BY <1>8, <2>5, <2>6, <3>1, <3>2
    <3> QED
      BY <1>10, <2>7, <3>2, <3>3, NextNumber
  <2> QED
    BY <2>8, <2>9 DEF InOrder
<1>17. LoneInOrder'
  <2> SUFFICES ASSUME NEW q \in Process, Single(q)
               PROVE  InOrder(q)'
    BY SingleFixed DEF LoneInOrder
  <2>1. CASE q # p
    BY <1>1, <1>7, <1>8, <2>1, ZenonT(30) DEF LoneInOrder, InOrder
  <2> QED
    BY <1>16, <2>1
<1> QED
  BY <1>12, <1>13, <1>14, <1>15, <1>17 DEF IInv

LEMMA ExitIInv ==
  ASSUME IInv, NEW t \in Thread, Exit(t)
  PROVE  IInv'
<1>1. /\ TypeOK /\ CallTyped /\ DeadIsEmpty /\ SearchesHead /\ LoneInOrder
      /\ ~Halted
  BY DEF IInv, Exit, At
<1>2. PICK p \in Process : p = Owner[t]
  BY IPCAssumption
<1>3. /\ alive' = [alive EXCEPT ![p] = FALSE]
      /\ ipcMessages' = [ipcMessages EXCEPT ![p] = <<>>]
      /\ pc' = [u \in Thread |-> IF Owner[u] = p THEN "stopped" ELSE pc[u]]
      /\ call' = [u \in Thread |-> IF Owner[u] = p THEN NoCall ELSE call[u]]
      /\ blocked' = [u \in Thread |-> blocked[u] /\ Owner[u] # p]
      /\ sent' = [sent EXCEPT ![p] = 0] /\ got' = [got EXCEPT ![p] = 0]
      /\ UNCHANGED <<life, receivingBlockedList, panicked, wildWrite>>
  BY <1>2 DEF Exit
<1>4. /\ ~alive'[p] /\ ipcMessages'[p] = <<>> /\ sent'[p] = 0 /\ got'[p] = 0
      /\ \A q \in Process \ {p} : /\ alive'[q] = alive[q]
                                  /\ ipcMessages'[q] = ipcMessages[q]
                                  /\ sent'[q] = sent[q] /\ got'[q] = got[q]
  BY <1>1, <1>3 DEF TypeOK
<1>5. \A u \in Thread : IF Owner[u] = p THEN pc'[u] = "stopped"
                                        ELSE pc'[u] = pc[u] /\ call'[u] = call[u]
  BY <1>3
<1>6. TypeOK'
  <2>1. /\ alive' \in [Process -> BOOLEAN] /\ ipcMessages' \in [Process -> Seq(Message)]
        /\ sent' \in [Process -> Nat] /\ got' \in [Process -> Nat]
    BY <1>1, <1>3, SMT DEF TypeOK
  <2>2. /\ pc' \in [Thread -> {"stopped", "user", "push", "scan", "remove", "unblock",
                               "describe", "block", "get", "walk", "take"}]
        /\ call' \in [Thread -> SendCall \cup WakeCall \cup ReceiveCall \cup SearchCall]
    BY <1>1, <1>3, NoCallTyped DEF TypeOK
  <2>3. blocked' \in [Thread -> BOOLEAN]
    BY <1>1, <1>3 DEF TypeOK
  <2> QED
    BY <1>1, <1>3, <2>1, <2>2, <2>3 DEF TypeOK
<1>7. CallTyped'
  BY <1>1, <1>5 DEF CallTyped
<1>8. DeadIsEmpty'
  BY <1>1, <1>4, <1>5, IPCAssumption, SMT DEF DeadIsEmpty
<1>9. SearchesHead'
  <2> SUFFICES ASSUME NEW u \in Thread, Single(Owner[u]), ~Halted', pc'[u] \in {"walk", "take"}
               PROVE  Searching(u, pc[u], call[u])'
    BY SingleFixed DEF SearchesHead
  <2>1. Owner[u] \in Process \ {p} /\ pc'[u] = pc[u] /\ call'[u] = call[u]
    BY <1>5, IPCAssumption
  <2>2. Searching(u, pc[u], call[u])
    BY <1>1, <2>1 DEF SearchesHead
  <2>3. Acceptable(u, call[u].msg)' <=> Acceptable(u, call[u].msg)
    BY <1>3, <2>1 DEF Acceptable, Id
  <2> QED
    BY <1>4, <2>1, <2>2, <2>3 DEF Searching
<1>10. LoneInOrder'
  <2> SUFFICES ASSUME NEW q \in Process, Single(q)
               PROVE  /\ Len(ipcMessages'[q]) = sent'[q] - got'[q]
                      /\ \A i \in DOMAIN ipcMessages'[q] :
                            ipcMessages'[q][i].number = got'[q] + i
    BY SingleFixed DEF LoneInOrder, InOrder
  <2>1. CASE q = p
    BY <1>4, <2>1, SMT
  <2>2. CASE q # p
    BY <1>1, <1>4, <2>2 DEF LoneInOrder, InOrder
  <2> QED
    BY <2>1, <2>2
<1> QED
  BY <1>6, <1>7, <1>8, <1>9, <1>10 DEF IInv

LEMMA CreateIInv ==
  ASSUME IInv, NEW p \in Process, Create(p)
  PROVE  IInv'
<1>1. /\ TypeOK /\ CallTyped /\ DeadIsEmpty /\ SearchesHead /\ LoneInOrder
      /\ ~Halted /\ ~alive[p]
  BY DEF IInv, Create
<1>2. \A u \in Thread : /\ Owner[u] = p => pc[u] = "stopped" /\ pc'[u] = "user"
                        /\ Owner[u] # p => pc'[u] = pc[u]
  BY <1>1 DEF Create, DeadIsEmpty
<1>3. /\ alive'[p] /\ \A q \in Process \ {p} : alive'[q] = alive[q]
      /\ \A q \in Process \ {p} : life'[q] = life[q]
      /\ UNCHANGED <<ipcMessages, call, sent, got, panicked, wildWrite>>
  BY <1>1 DEF Create, TypeOK
<1>4. TypeOK'
  <2>1. life' \in [Process -> 1..MaxLife]
    <3>1. life[p] + 1 \in 1..MaxLife
      BY <1>1, IPCAssumption, SMT DEF Create, TypeOK
    <3> QED
      BY <1>1, <3>1 DEF Create, TypeOK
  <2>2. /\ alive' \in [Process -> BOOLEAN]
        /\ pc' \in [Thread -> {"stopped", "user", "push", "scan", "remove", "unblock",
                               "describe", "block", "get", "walk", "take"}]
    BY <1>1 DEF Create, TypeOK
  <2> QED
    BY <1>1, <2>1, <2>2 DEF Create, TypeOK
<1>5. CallTyped'
  BY <1>1, <1>2, <1>3 DEF CallTyped
<1>6. DeadIsEmpty'
  BY <1>1, <1>2, <1>3, IPCAssumption, SMT DEF DeadIsEmpty
<1>7. SearchesHead'
  <2> SUFFICES ASSUME NEW u \in Thread, Single(Owner[u]), ~Halted', pc'[u] \in {"walk", "take"}
               PROVE  Searching(u, pc[u], call[u])'
    BY SingleFixed DEF SearchesHead
  <2>1. Owner[u] \in Process \ {p} /\ pc'[u] = pc[u]
    BY <1>2, IPCAssumption
  <2>2. Searching(u, pc[u], call[u])
    BY <1>1, <2>1 DEF SearchesHead
  <2>3. Acceptable(u, call[u].msg)' <=> Acceptable(u, call[u].msg)
    BY <1>3, <2>1 DEF Acceptable, Id
  <2> QED
    BY <1>3, <2>1, <2>2, <2>3 DEF Searching
<1>8. LoneInOrder'
  BY <1>1, <1>3, SingleFixed DEF LoneInOrder, InOrder
<1> QED
  BY <1>4, <1>5, <1>6, <1>7, <1>8 DEF IInv
-----------------------------------------------------------------------------
LEMMA NextIInv ==
  ASSUME IInv, [Next]_vars
  PROVE  IInv'
<1>1. CASE UNCHANGED vars
  <2>1. TypeOK' /\ CallTyped'
    BY <1>1 DEF vars, IInv, TypeOK, CallTyped
  <2>2. DeadIsEmpty' /\ LoneInOrder'
    BY <1>1, SingleFixed DEF vars, IInv, DeadIsEmpty, LoneInOrder, InOrder
  <2>3. SearchesHead'
    BY <1>1, SingleFixed DEF vars, IInv, SearchesHead, Searching, Acceptable, Id, Halted
  <2> QED
    BY <2>1, <2>2, <2>3 DEF IInv
<1>2. ASSUME NEW t \in Thread, SendStep(t) \/ ReceiveStep(t)
      PROVE  IInv'
  BY <1>2, PushIInv, ScanIInv, RemoveDescriptorIInv, UnblockReceiverIInv, DescribeIInv,
     BlockIInv, GetFirstIInv, WalkIInv, TakeIInv DEF SendStep, ReceiveStep
<1> QED
  BY <1>1, <1>2, SendIInv, ReceiveIInv, ExitIInv, CreateIInv DEF Next

(* The inductive invariant holds in every state. *)
THEOREM Invariance == Spec => []IInv
BY InitIInv, NextIInv, PTL DEF Spec

(* HandleSend and HandleReceive keep messages, descriptors and their own    *)
(* locals well typed, for any number of threads that send and receive.      *)
THEOREM TypeCorrect == Spec => []TypeOK
<1>1. IInv => TypeOK
  BY DEF IInv
<1> QED
  BY Invariance, <1>1, PTL

(***************************************************************************)
(* A process with a single thread receives the messages sent to it exactly *)
(* once and in order (HandleSend, HandleReceive), whatever the number of   *)
(* senders and of their threads, types and filters, exits and restarts.    *)
(***************************************************************************)
THEOREM LoneReceiverInOrder == ASSUME NEW p \in Process, Single(p) PROVE Spec => []InOrder(p)
<1>1. IInv => InOrder(p)
  BY DEF IInv, LoneInOrder
<1> QED
  BY Invariance, <1>1, PTL

(* So that nothing is lost or reordered where all processes are like that.  *)
THEOREM InOrderDelivery == SingleThreaded => (Spec => []FifoDelivery)
<1> SUFFICES ASSUME SingleThreaded PROVE Spec => []FifoDelivery
  OBVIOUS
<1>1. IInv => FifoDelivery
  BY DEF IInv, LoneInOrder, FifoDelivery, SingleThreaded
<1> QED
  BY Invariance, <1>1, PTL
=============================================================================
