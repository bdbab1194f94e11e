------------------------ MODULE RegistryEngineProofs ------------------------
(***************************************************************************)
(* Proofs about RegistryEngine.  The first half holds for everything that  *)
(* devices and host applications can do (Spec): types, and records filed   *)
(* under their own ids.  The rest holds under DisciplinedSpec: the slot    *)
(* table is exact, and games and viewers are told what it holds.           *)
(***************************************************************************)
EXTENDS RegistryEngine, FiniteSetTheorems, SequenceTheorems, WellFoundedInduction, TLAPS

RegType == [DeviceId -> Info \cup {Absent, NoInfo}]
SentType == [DeviceId -> Seq(Message)]
Keyed(reg) == \A d \in DeviceId : HasInfo(reg, d) => reg[d].dev = d

-----------------------------------------------------------------------------
(* The slot search.                                                        *)

LessRel == {p \in Nat \X Nat : p[1] < p[2]}

(* The naturals are well-founded under <, as a set of pairs.               *)
LEMMA LessWellFounded == IsWellFoundedOn(LessRel, Nat)
<1>1. SUFFICES ASSUME NEW f \in [Nat -> Nat],
                      \A n \in Nat : <<f[n+1], f[n]>> \in LessRel
               PROVE  FALSE
  BY DEF IsWellFoundedOn
<1>2. \A n \in Nat : f[n+1] < f[n]
  BY <1>1 DEF LessRel
<1> QED
  BY <1>2, NatLessThanWellFounded DEF IsWellFoundedOn, OpToRel

(* Every non-empty set of naturals has a least element.                    *)
LEMMA LeastNatural ==
  ASSUME NEW T \in SUBSET Nat, T # {}
  PROVE  \E x \in T : \A y \in T : x <= y
<1>1. PICK x \in T : \A y \in T : ~ (<<y, x>> \in LessRel)
  BY LessWellFounded, WFMin
<1>2. \A m, n \in Nat : m < n => <<m, n>> \in LessRel
  BY DEF LessRel
<1>3. \A y \in T : x <= y
  <2> TAKE y \in T
  <2>1. x \in Nat /\ y \in Nat
    OBVIOUS
  <2>2. ~ (y < x)
    BY <2>1, <1>1, <1>2
  <2> QED
    BY <2>1, <2>2
<1> QED
  BY <1>3

(* Positions in the search order of allocate_slot are natural numbers.     *)
LEMMA ProbeNat == \A s \in SlotValue : Probe(s) \in Nat
  BY ConstantsAssumption DEF SlotValue, Probe

(* allocate_slot returns a slot that is not in use, and the first one in   *)
(* the order of its search, whenever there is one.                         *)
LEMMA AllocateSlotFirst ==
  ASSUME NEW used, SlotValue \ used # {}
  PROVE  /\ AllocateSlot(used) \in SlotValue \ used
         /\ \A t \in SlotValue \ used : Probe(AllocateSlot(used)) <= Probe(t)
<1> DEFINE T == {Probe(s) : s \in SlotValue \ used}
<1>1. T \in SUBSET Nat /\ T # {}
  BY ProbeNat
<1>2. PICK x \in T : \A y \in T : x <= y
  BY <1>1, LeastNatural
<1>3. PICK s \in SlotValue \ used : x = Probe(s)
  BY <1>2
<1>4. \A t \in SlotValue \ used : Probe(s) <= Probe(t)
  BY <1>2, <1>3
<1> QED
  BY <1>3, <1>4 DEF AllocateSlot

-----------------------------------------------------------------------------
(* Types of the helpers.                                                   *)

(* A record with an info holds an info of the record type.                 *)
LEMMA HasInfoType ==
  ASSUME NEW reg \in RegType, NEW d \in DeviceId, HasInfo(reg, d)
  PROVE  reg[d] \in Info
  BY DEF RegType, HasInfo

(* An info in the registry counts as one: it is no Absent or NoInfo.       *)
LEMMA InfoHasInfo ==
  ASSUME NEW reg, NEW d, reg[d] \in Info
  PROVE  HasInfo(reg, d)
  BY ConstantsAssumption DEF HasInfo

(* What write_to writes of any info can be read back by read_from.         *)
LEMMA OnWireType ==
  ASSUME NEW i \in Info
  PROVE  OnWire(i) \in WireInfo
  BY ConstantsAssumption DEF OnWire, Info, WireInfo, SlotValue

(* An info that was decoded is an info.                                    *)
LEMMA WireInfoIsInfo == WireInfo \subseteq Info
  BY DEF WireInfo

(* A host report about any info is a message.                              *)
LEMMA HostMsgType ==
  ASSUME NEW i \in Info, NEW m \in HostMethod
  PROVE  <<HostMsg(m, i)>> \in Seq(Message)
<1>1. OnWire(i) \in WireInfo
  BY OnWireType
<1>2. HostMsg(m, i) \in Message
  BY <1>1 DEF HostMsg, Message
<1> QED
  BY <1>2

(* Delivering messages gives every device a sequence of messages.          *)
LEMMA DeliverType ==
  ASSUME NEW reg, NEW D, NEW msgs \in Seq(Message)
  PROVE  Deliver(reg, D, msgs) \in SentType
  BY DEF Deliver, SentType

(* A call that sends nothing is well typed.                                *)
LEMMA QuietType == Quiet \in SentType
  BY DEF Quiet, SentType

(* Merging an old and a new info (upsert_registry_info) gives an info.     *)
LEMMA MergeType ==
  ASSUME NEW old \in Info, NEW i \in Info
  PROVE  Merge(old, i) \in Info /\ Merge(old, i).dev = i.dev
  BY DEF Merge, Info

(* Registering the sender of a packet keeps types and keys.                *)
LEMMA TouchType ==
  ASSUME NEW reg \in RegType, Keyed(reg), NEW s \in DeviceId
  PROVE  Touch(reg, s) \in RegType /\ Keyed(Touch(reg, s))
  BY ConstantsAssumption DEF RegType, Touch, Keyed, HasInfo

(* Storing an info keeps types and keys.                                   *)
LEMMA UpsertType ==
  ASSUME NEW reg \in RegType, Keyed(reg), NEW i \in Info
  PROVE  /\ Upsert(reg, i) \in RegType
         /\ Keyed(Upsert(reg, i))
         /\ Upsert(reg, i)[i.dev] \in Info
<1> DEFINE new == IF HasInfo(reg, i.dev) THEN Merge(reg[i.dev], i) ELSE i
<1>1. i.dev \in DeviceId
  BY DEF Info
<1>2. new \in Info /\ new.dev = i.dev
  BY <1>1, HasInfoType, MergeType
<1>3. Upsert(reg, i) = [reg EXCEPT ![i.dev] = new]
  BY DEF Upsert
<1> HIDE DEF new
<1> QED
  BY <1>1, <1>2, <1>3 DEF RegType, Keyed, HasInfo

(* The answer to registry.list is a message.                               *)
LEMMA OnListType ==
  ASSUME NEW reg \in RegType, NEW k
  PROVE  <<OnList(InfosForViewer(reg, k))>> \in Seq(Message)
<1>1. InfosForViewer(reg, k) \subseteq Info
  BY HasInfoType DEF InfosForViewer, KindIs
<1>2. {OnWire(i) : i \in InfosForViewer(reg, k)} \in SUBSET WireInfo
  BY <1>1, OnWireType
<1>3. OnList(InfosForViewer(reg, k)) \in Message
  BY <1>2 DEF OnList, Message
<1> QED
  BY <1>3

(* The answers without an info.                                            *)
LEMMA AnswerType ==
  /\ \A ok \in BOOLEAN : <<OnRegister(ok)>> \in Seq(Message)
  /\ <<[method |-> "relayed"]>> \in Seq(Message)
  /\ <<[method |-> "echo"]>> \in Seq(Message)
<1>1. \A ok \in BOOLEAN : OnRegister(ok) \in Message
  BY DEF OnRegister, Message
<1>2. [method |-> "relayed"] \in Message /\ [method |-> "echo"] \in Message
  BY DEF Message
<1> QED
  BY <1>1, <1>2

(* What registry.update announces of one info is a message or nothing.     *)
LEMMA UpdateNewsType ==
  ASSUME NEW reg \in RegType, Keyed(reg), NEW i \in Info
  PROVE  UpdateNews(reg, i) \in Seq(Message)
<1>1. <<HostMsg("onHostUpdate", Upsert(reg, i)[i.dev])>> \in Seq(Message)
  BY UpsertType, HostMsgType DEF HostMethod
<1> QED
  BY <1>1 DEF UpdateNews

-----------------------------------------------------------------------------
(* The induction step, one lemma per operation.                            *)

TypeInv == TypeOK /\ RecordsKeyed

(* The parts of the state an operation changes; the rest stays typed.      *)
StoreOK ==
  /\ registry \in RegType /\ Keyed(registry)
  /\ used_slots \in SUBSET SlotValue
  /\ sent \in SentType

PendingOK ==
  /\ pending \in [DeviceId -> PendingEntry \cup {NoPending}]
  /\ \A d \in DeviceId : pending[d] # NoPending => pending[d].info.dev = d

OptionsOK == auto_approve \in BOOLEAN /\ local_device \in Kind \cup {NoLocal}

(* TypeInv speaks of the store, the pending entries and the options.       *)
LEMMA TypeInvParts == TypeInv <=> StoreOK /\ PendingOK /\ OptionsOK
  BY DEF TypeInv, TypeOK, RecordsKeyed, StoreOK, PendingOK, OptionsOK, RegType,
         SentType, Keyed

(* The same in the next state.                                             *)
LEMMA TypeInvPartsNext == TypeInv' <=> StoreOK' /\ PendingOK' /\ OptionsOK'
  BY TypeInvParts, PTL

(* Admission (of registry.register or approval) keeps the store typed.     *)
LEMMA AdmitStore ==
  ASSUME StoreOK, NEW reg \in RegType, Keyed(reg),
         NEW info \in WireInfo, NEW target \in DeviceId,
         Admit(reg, info, target)
  PROVE  StoreOK'
<1> DEFINE game     == info.kind = "game"
           free     == IF game THEN Released(reg, used_slots, info.dev) ELSE used_slots
           slot     == IF game THEN AllocateSlot(free) ELSE 0
           admitted == [info EXCEPT !.slot = slot]
           stored   == Upsert(reg, admitted)
           news     == IF game THEN <<HostMsg("onHostConnected", admitted)>> ELSE <<>>
<1>1. free \in SUBSET SlotValue
  BY DEF Released, StoreOK
<1>2. slot \in SlotValue
  <2>1. CASE game
    <3>1. SlotValue \ free # {}
      BY <2>1 DEF Admit
    <3> QED
      BY <2>1, <3>1, AllocateSlotFirst
  <2>2. CASE ~game
    BY <2>2, ConstantsAssumption DEF SlotValue
  <2> QED
    BY <2>1, <2>2
<1> HIDE DEF slot
<1>3. admitted \in Info
  BY <1>2, WireInfoIsInfo DEF Info
<1>4. registry' = stored /\ used_slots' = (IF game THEN free \cup {slot} ELSE free)
  BY DEF Admit, slot
<1>5. news \in Seq(Message)
  BY <1>3, HostMsgType DEF HostMethod
<1>6. <<OnRegister(TRUE)>> \o news \in Seq(Message)
  <2>1. <<OnRegister(TRUE)>> \in Seq(Message)
    BY AnswerType
  <2> HIDE DEF news
  <2> QED
    BY <1>5, <2>1, ConcatProperties
<1>7. sent' = [Deliver(stored, Viewers(stored), news) EXCEPT
                 ![target] = Deliver(stored, {target}, <<OnRegister(TRUE)>> \o news)[target]]
  BY DEF Admit, slot
<1>8. sent' \in SentType
  <2>1. /\ Deliver(stored, Viewers(stored), news) \in SentType
        /\ Deliver(stored, {target}, <<OnRegister(TRUE)>> \o news) \in SentType
    BY <1>5, <1>6, DeliverType
  <2> QED
    BY <1>7, <2>1 DEF SentType
<1>9. registry' \in RegType /\ Keyed(registry')
  BY <1>3, <1>4, UpsertType
<1> QED
  BY <1>1, <1>2, <1>4, <1>8, <1>9 DEF StoreOK

(* registry.register keeps types and keys.                                 *)
LEMMA RegisterStep ==
  ASSUME TypeInv, NEW s \in DeviceId, NEW info \in WireInfo,
         RegistryRegister(s, info)
  PROVE  TypeInv'
<1> DEFINE reg == Touch(registry, s)
<1>1. StoreOK /\ PendingOK /\ OptionsOK
  BY TypeInvParts
<1>2. reg \in RegType /\ Keyed(reg)
  BY <1>1, TouchType DEF StoreOK
<1>3. OptionsOK'
  BY <1>1 DEF OptionsOK, RegistryRegister
<1>4. CASE Admit(reg, info, s) /\ UNCHANGED pending
  <2>1. StoreOK'
    BY <1>1, <1>2, <1>4, AdmitStore
  <2>2. PendingOK'
    BY <1>1, <1>4 DEF PendingOK
  <2> QED
    BY <1>3, <2>1, <2>2, TypeInvPartsNext
<1>5. CASE /\ pending' = [pending EXCEPT ![info.dev] = [info |-> info, target |-> s]]
           /\ registry' = reg /\ sent' = Quiet /\ UNCHANGED used_slots
  <2>1. StoreOK'
    BY <1>1, <1>2, <1>5, QuietType DEF StoreOK
  <2>2. info.dev \in DeviceId
    BY WireInfoIsInfo DEF Info
  <2>3. PendingOK'
    BY <1>1, <1>5, <2>2 DEF PendingOK, PendingEntry
  <2> QED
    BY <1>3, <2>1, <2>3, TypeInvPartsNext
<1>6. CASE registry' = reg /\ sent' = Quiet /\ UNCHANGED <<used_slots, pending>>
  <2>1. StoreOK' /\ PendingOK'
    BY <1>1, <1>2, <1>6, QuietType DEF StoreOK, PendingOK
  <2> QED
    BY <1>3, <2>1, TypeInvPartsNext
<1> QED
  BY <1>4, <1>5, <1>6 DEF RegistryRegister, Deferred

(* approve_registration keeps types and keys.                              *)
LEMMA ApproveStep ==
  ASSUME TypeInv, NEW d \in DeviceId, ApproveRegistration(d)
  PROVE  TypeInv'
<1>1. StoreOK /\ PendingOK /\ OptionsOK
  BY TypeInvParts
<1>2. pending[d] \in PendingEntry
  BY <1>1 DEF PendingOK, ApproveRegistration
<1>3. StoreOK'
  <2>1. registry \in RegType /\ Keyed(registry)
    BY <1>1 DEF StoreOK
  <2>2. pending[d].info \in WireInfo /\ pending[d].target \in DeviceId
    BY <1>2 DEF PendingEntry
  <2> QED
    BY <1>1, <2>1, <2>2, AdmitStore DEF ApproveRegistration
<1>4. PendingOK' /\ OptionsOK'
  BY <1>1 DEF PendingOK, OptionsOK, ApproveRegistration
<1> QED
  BY <1>3, <1>4, TypeInvPartsNext

(* deny_registration keeps types and keys.                                 *)
LEMMA DenyStep ==
  ASSUME TypeInv, NEW d \in DeviceId, DenyRegistration(d)
  PROVE  TypeInv'
<1>1. StoreOK /\ PendingOK /\ OptionsOK
  BY TypeInvParts
<1>2. sent' \in SentType
  BY AnswerType, DeliverType DEF DenyRegistration
<1>3. StoreOK'
  BY <1>1, <1>2 DEF StoreOK, DenyRegistration
<1>4. PendingOK' /\ OptionsOK'
  BY <1>1 DEF PendingOK, OptionsOK, DenyRegistration
<1> QED
  BY <1>3, <1>4, TypeInvPartsNext

(* The packets that change no more than the sender's record.               *)
LEMMA TouchStep ==
  ASSUME TypeInv, NEW s \in DeviceId,
         registry' = Touch(registry, s), sent' \in SentType,
         UNCHANGED <<used_slots, pending, auto_approve, local_device>>
  PROVE  TypeInv'
<1>1. StoreOK /\ PendingOK /\ OptionsOK
  BY TypeInvParts
<1>2. StoreOK'
  BY <1>1, TouchType DEF StoreOK
<1>3. PendingOK' /\ OptionsOK'
  BY <1>1 DEF PendingOK, OptionsOK
<1> QED
  BY <1>2, <1>3, TypeInvPartsNext

(* registry.list keeps types and keys.                                     *)
LEMMA ListStep ==
  ASSUME TypeInv, NEW s \in DeviceId, RegistryList(s)
  PROVE  TypeInv'
<1>1. Touch(registry, s) \in RegType
  BY TypeInvParts, TouchType DEF StoreOK
<1>2. sent' \in SentType
  BY <1>1, OnListType, DeliverType, QuietType DEF RegistryList
<1> QED
  BY <1>2, TouchStep DEF RegistryList

(* registry.relay keeps types and keys.                                    *)
LEMMA RelayStep ==
  ASSUME TypeInv, NEW s \in DeviceId, NEW t \in DeviceId, RegistryRelay(s, t)
  PROVE  TypeInv'
<1>1. sent' \in SentType
  BY AnswerType, DeliverType, QuietType DEF RegistryRelay
<1> QED
  BY <1>1, TouchStep DEF RegistryRelay

(* A ping keeps types and keys.                                            *)
LEMMA PingStep ==
  ASSUME TypeInv, NEW s \in DeviceId, ProcessPing(s)
  PROVE  TypeInv'
<1>1. sent' \in SentType
  BY AnswerType, DeliverType DEF ProcessPing
<1> QED
  BY <1>1, TouchStep DEF ProcessPing

(* Packets that only report keep them, and wasm's register_device does.    *)
LEMMA OtherStep ==
  ASSUME TypeInv, NEW s \in DeviceId, ProcessOther(s) \/ RegisterDeviceWasm(s)
  PROVE  TypeInv'
  BY QuietType, TouchStep DEF ProcessOther, RegisterDeviceWasm

(* Storing the infos of an update in turn keeps types and keys.            *)
LEMMA UpsertAllType ==
  ASSUME NEW reg \in RegType, Keyed(reg), NEW b \in UpdateBatch
  PROVE  /\ UpsertAll(reg, b) \in RegType
         /\ Keyed(UpsertAll(reg, b))
         /\ AllUpdateNews(reg, b) \in Seq(Message)
<1>1. /\ Len(b) \in Nat
      /\ Len(b) >= 1 => b[1] \in Info
      /\ Len(b) >= 2 => b[2] \in Info
  BY WireInfoIsInfo, ConstantsAssumption DEF UpdateBatch
<1> DEFINE once == IF Len(b) >= 1 THEN Upsert(reg, b[1]) ELSE reg
<1>2. once \in RegType /\ Keyed(once)
  BY <1>1, UpsertType
<1>3. /\ UpsertAll(reg, b) \in RegType
      /\ Keyed(UpsertAll(reg, b))
  <2> HIDE DEF once
  <2>1. UpsertAll(reg, b) = IF Len(b) >= 2 THEN Upsert(once, b[2]) ELSE once
    BY DEF UpsertAll, once
  <2> QED
    BY <1>1, <1>2, <2>1, UpsertType
<1> DEFINE first  == IF Len(b) >= 1 THEN UpdateNews(reg, b[1]) ELSE <<>>
           second == IF Len(b) >= 2 THEN UpdateNews(Upsert(reg, b[1]), b[2]) ELSE <<>>
<1>4. first \in Seq(Message)
  BY <1>1, UpdateNewsType
<1>5. second \in Seq(Message)
  <2>1. CASE Len(b) >= 2
    <3>1. Upsert(reg, b[1]) \in RegType /\ Keyed(Upsert(reg, b[1]))
      BY <1>1, <2>1, UpsertType
    <3> QED
      BY <1>1, <2>1, <3>1, UpdateNewsType
  <2>2. CASE ~ (Len(b) >= 2)
    BY <2>2
  <2> QED
    BY <2>1, <2>2
<1>6. AllUpdateNews(reg, b) = first \o second
  BY DEF AllUpdateNews
<1> HIDE DEF first, second
<1>7. AllUpdateNews(reg, b) \in Seq(Message)
  BY <1>4, <1>5, <1>6, ConcatProperties
<1> QED
  BY <1>3, <1>7

(* registry.update keeps types and keys.                                   *)
LEMMA UpdateStep ==
  ASSUME TypeInv, NEW s \in DeviceId, NEW b \in UpdateBatch, RegistryUpdate(s, b)
  PROVE  TypeInv'
<1> DEFINE reg == Touch(registry, s)
<1>1. StoreOK /\ PendingOK /\ OptionsOK
  BY TypeInvParts
<1>2. reg \in RegType /\ Keyed(reg)
  BY <1>1, TouchType DEF StoreOK
<1>3. registry' = reg \/ registry' = UpsertAll(reg, b)
  BY DEF RegistryUpdate
<1>4. registry' \in RegType /\ Keyed(registry')
  BY <1>2, <1>3, UpsertAllType
<1>5. sent' \in SentType
  BY <1>2, UpsertAllType, DeliverType, QuietType DEF RegistryUpdate
<1>6. StoreOK'
  BY <1>1, <1>4, <1>5 DEF StoreOK, RegistryUpdate
<1>7. PendingOK' /\ OptionsOK'
  BY <1>1 DEF PendingOK, OptionsOK, RegistryUpdate
<1> QED
  BY <1>6, <1>7, TypeInvPartsNext

(* drop_device keeps types and keys.                                       *)
LEMMA DropStep ==
  ASSUME TypeInv, NEW d \in DeviceId, DropDevice(d)
  PROVE  TypeInv'
<1>1. StoreOK /\ PendingOK /\ OptionsOK
  BY TypeInvParts
<1>2. registry' \in RegType /\ Keyed(registry')
  BY <1>1 DEF StoreOK, DropDevice, RegType, Keyed, HasInfo
<1>3. used_slots' \in SUBSET SlotValue
  BY <1>1 DEF StoreOK, DropDevice, Released
<1> DEFINE news == IF KindIs(registry, d, "game") /\ IsServer
                   THEN <<HostMsg("onHostDisconnected", registry[d])>> ELSE <<>>
<1>4. news \in Seq(Message)
  BY <1>1, HasInfoType, HostMsgType DEF StoreOK, KindIs, HostMethod
<1>5. sent' = Deliver(registry', Viewers(registry'), news)
  BY DEF DropDevice
<1> HIDE DEF news
<1>6. sent' \in SentType
  BY <1>4, <1>5, DeliverType
<1>7. PendingOK' /\ OptionsOK'
  BY <1>1 DEF PendingOK, OptionsOK, DropDevice
<1>8. StoreOK'
  BY <1>2, <1>3, <1>6 DEF StoreOK
<1> QED
  BY <1>7, <1>8, TypeInvPartsNext

(* The calls that only set a record or an option.                          *)
LEMMA SettingStep ==
  ASSUME TypeInv,
         \/ \E d \in DeviceId : RegisterDevice(d)
         \/ \E kind \in LocalKind : InitLocalDevice(kind)
         \/ \E value \in BOOLEAN : SetAutoApprove(value)
  PROVE  TypeInv'
<1>1. StoreOK /\ PendingOK /\ OptionsOK
  BY TypeInvParts
<1>2. CASE \E d \in DeviceId : RegisterDevice(d)
  <2>1. registry' \in RegType /\ Keyed(registry')
    BY <1>1, <1>2 DEF StoreOK, RegisterDevice, RegType, Keyed, HasInfo
  <2>2. StoreOK' /\ PendingOK' /\ OptionsOK'
    BY <1>1, <1>2, <2>1, QuietType DEF StoreOK, PendingOK, OptionsOK, RegisterDevice
  <2> QED
    BY <2>2, TypeInvPartsNext
<1>3. CASE \/ \E kind \in LocalKind : InitLocalDevice(kind)
           \/ \E value \in BOOLEAN : SetAutoApprove(value)
  <2>1. StoreOK' /\ PendingOK'
    BY <1>1, <1>3, QuietType DEF StoreOK, PendingOK, InitLocalDevice, SetAutoApprove
  <2>2. OptionsOK'
    BY <1>1, <1>3, ConstantsAssumption DEF OptionsOK, InitLocalDevice, SetAutoApprove
  <2> QED
    BY <2>1, <2>2, TypeInvPartsNext
<1> QED
  BY <1>2, <1>3

(* A new engine satisfies the type invariant.                              *)
LEMMA TypeInvInit == Init => TypeInv
<1> SUFFICES ASSUME Init PROVE TypeInv
  OBVIOUS
<1>1. StoreOK
  BY DEF Init, StoreOK, RegType, Keyed, HasInfo, SentType
<1>2. PendingOK /\ OptionsOK
  BY DEF Init, PendingOK, OptionsOK
<1> QED
  BY <1>1, <1>2, TypeInvParts

(* Every call keeps the type invariant: one step per entry point.          *)
LEMMA TypeInvStep == TypeInv /\ [Next]_vars => TypeInv'
<1> SUFFICES ASSUME TypeInv, [Next]_vars PROVE TypeInv'
  OBVIOUS
<1>1. ASSUME NEW call \in RegisterCall, RegistryRegister(call[1], call[2])
      PROVE  TypeInv'
  <2>1. call[1] \in DeviceId /\ call[2] \in WireInfo
    BY ConstantsAssumption
  <2> QED
    BY <1>1, <2>1, RegisterStep
<1>2. ASSUME NEW s \in DeviceId,
             \/ RegistryList(s) \/ ProcessPing(s) \/ ProcessOther(s)
             \/ \E t \in DeviceId : RegistryRelay(s, t)
             \/ \E b \in UpdateBatch : RegistryUpdate(s, b)
      PROVE  TypeInv'
  BY <1>2, ListStep, PingStep, OtherStep, RelayStep, UpdateStep
<1>3. ASSUME NEW d \in DeviceId,
             \/ ApproveRegistration(d) \/ DenyRegistration(d)
             \/ DropDevice(d) \/ RegisterDeviceWasm(d)
      PROVE  TypeInv'
  BY <1>3, ApproveStep, DenyStep, DropStep, OtherStep
<1>4. CASE \/ \E d \in DeviceId : RegisterDevice(d)
           \/ \E kind \in LocalKind : InitLocalDevice(kind)
           \/ \E value \in BOOLEAN : SetAutoApprove(value)
  BY <1>4, SettingStep
<1>5. CASE UNCHANGED vars
  BY <1>5, TypeInvParts, TypeInvPartsNext
     DEF vars, StoreOK, PendingOK, OptionsOK
<1> QED
  BY <1>1, <1>2, <1>3, <1>4, <1>5 DEF Next, Common

(* Whatever devices send and applications call, in any order: the state    *)
(* and every outgoing message have their types (TypeOK), and every record  *)
(* and pending registration is filed under the id its info names           *)
(* (RecordsKeyed).                                                         *)
THEOREM TypeCorrect == Spec => [](TypeOK /\ RecordsKeyed)
<1>1. TypeInv => TypeOK /\ RecordsKeyed
  BY DEF TypeInv
<1> QED
  BY <1>1, TypeInvInit, TypeInvStep, PTL DEF Spec

-----------------------------------------------------------------------------
(* The slot table.                                                         *)

(* The slot a device holds, 0 for none.                                    *)
SlotOf(reg, d) == IF HasInfo(reg, d) /\ reg[d].slot > 0 THEN reg[d].slot ELSE 0

(* SlotsExact and SlotsDense as a predicate of any registry and slot set.  *)
Exact(reg, used) ==
  /\ used = {SlotOf(reg, d) : d \in DeviceId} \ {0}
  /\ \A d, e \in DeviceId : SlotOf(reg, d) = SlotOf(reg, e) /\ SlotOf(reg, d) # 0 => d = e
  /\ used \subseteq 1 .. Cardinality(DeviceId)

(* Exact is SlotsExact, for a typed state.                                 *)
LEMMA ExactIsSlots ==
  ASSUME TypeInv
  PROVE  Exact(registry, used_slots) <=> SlotsExact /\ SlotsDense
<1>1. registry \in RegType
  BY TypeInvParts DEF StoreOK
<1>2. \A d \in DeviceId : d \in Holders => registry[d].slot \in Int
  BY <1>1, HasInfoType DEF Holders, Info, SlotValue
<1>3. /\ \A d \in Holders : SlotOf(registry, d) = registry[d].slot /\ SlotOf(registry, d) # 0
      /\ \A d \in DeviceId \ Holders : SlotOf(registry, d) = 0
      /\ Holders \subseteq DeviceId
  BY <1>2 DEF Holders, SlotOf
<1>4. {registry[d].slot : d \in Holders} = {SlotOf(registry, d) : d \in DeviceId} \ {0}
  BY <1>3
<1>5. (\A d, e \in Holders : registry[d].slot = registry[e].slot => d = e)
      <=> (\A d, e \in DeviceId : SlotOf(registry, d) = SlotOf(registry, e)
                                   /\ SlotOf(registry, d) # 0 => d = e)
  BY <1>3
<1> QED
  BY <1>4, <1>5 DEF Exact, SlotsExact, SlotsDense

(* Calls that leave every device its slot leave the table exact.           *)
LEMMA ExactFrame ==
  ASSUME NEW reg, NEW next, NEW used, Exact(reg, used),
         \A d \in DeviceId : SlotOf(next, d) = SlotOf(reg, d)
  PROVE  Exact(next, used)
  BY DEF Exact

(* Seeing a packet of a device changes nobody's slot.                      *)
LEMMA TouchSlot ==
  ASSUME NEW reg \in RegType, NEW s \in DeviceId, NEW d \in DeviceId
  PROVE  SlotOf(Touch(reg, s), d) = SlotOf(reg, d)
  BY DEF SlotOf, Touch, HasInfo, RegType

(* Storing an info that asserts no slot, or the slot its device holds,     *)
(* keeps the slot of every device.                                         *)
LEMMA UpsertKeepsSlot ==
  ASSUME NEW reg \in RegType, NEW i \in Info,
         i.slot <= 0 \/ i.slot = SlotOf(reg, i.dev),
         NEW d \in DeviceId
  PROVE  SlotOf(Upsert(reg, i), d) = SlotOf(reg, d)
<1> DEFINE new == IF HasInfo(reg, i.dev) THEN Merge(reg[i.dev], i) ELSE i
<1>1. i.dev \in DeviceId /\ i.slot \in Int
  BY DEF Info, SlotValue
<1>2. Upsert(reg, i) = [reg EXCEPT ![i.dev] = new]
  BY DEF Upsert
<1>3. new \in Info
  BY <1>1, HasInfoType, MergeType
<1>4. HasInfo(reg, i.dev) => new.slot = reg[i.dev].slot
  BY <1>1, HasInfoType DEF Merge, Info, SlotValue, SlotOf
<1>5. ~ HasInfo(reg, i.dev) => new.slot <= 0
  BY DEF SlotOf
<1> HIDE DEF new
<1>6. CASE d = i.dev
  <2>1. Upsert(reg, i)[d] = new
    BY <1>1, <1>2, <1>6 DEF RegType
  <2>2. HasInfo(Upsert(reg, i), d)
    BY <1>3, <2>1, InfoHasInfo
  <2>3. new.slot \in Int
    BY <1>3 DEF Info, SlotValue
  <2> QED
    BY <1>4, <1>5, <1>6, <2>1, <2>2, <2>3 DEF SlotOf
<1>7. CASE d # i.dev
  BY <1>1, <1>2, <1>7 DEF SlotOf, HasInfo, RegType
<1> QED
  BY <1>6, <1>7

(* Storing an info with a slot gives the device that slot.                 *)
LEMMA UpsertSetsSlot ==
  ASSUME NEW reg \in RegType, NEW i \in Info, i.slot > 0
  PROVE  /\ SlotOf(Upsert(reg, i), i.dev) = i.slot
         /\ \A d \in DeviceId \ {i.dev} : SlotOf(Upsert(reg, i), d) = SlotOf(reg, d)
<1> DEFINE new == IF HasInfo(reg, i.dev) THEN Merge(reg[i.dev], i) ELSE i
<1>1. i.dev \in DeviceId /\ i.slot \in Int
  BY DEF Info, SlotValue
<1>2. Upsert(reg, i) = [reg EXCEPT ![i.dev] = new]
  BY DEF Upsert
<1>3. new \in Info
  BY <1>1, HasInfoType, MergeType
<1>4. new.slot = i.slot
  BY <1>1 DEF Merge, Info
<1> HIDE DEF new
<1>5. Upsert(reg, i)[i.dev] = new
  BY <1>1, <1>2 DEF RegType
<1>6. SlotOf(Upsert(reg, i), i.dev) = i.slot
  <2>1. HasInfo(Upsert(reg, i), i.dev)
    BY <1>3, <1>5, InfoHasInfo
  <2> QED
    BY <1>4, <1>5, <2>1 DEF SlotOf
<1>7. \A d \in DeviceId \ {i.dev} : SlotOf(Upsert(reg, i), d) = SlotOf(reg, d)
  BY <1>1, <1>2 DEF SlotOf, HasInfo, RegType
<1> QED
  BY <1>6, <1>7

(* The slots in use once device d gave its own back are those of the other *)
(* devices.                                                                *)
LEMMA ReleasedSlots ==
  ASSUME NEW reg \in RegType, NEW used, Exact(reg, used), NEW d \in DeviceId
  PROVE  Released(reg, used, d) = {SlotOf(reg, e) : e \in DeviceId \ {d}} \ {0}
<1>1. Released(reg, used, d) = used \ {SlotOf(reg, d)}
  <2>1. 0 \notin used
    BY DEF Exact
  <2> QED
    BY <2>1 DEF Released, SlotOf
<1> QED
  BY <1>1 DEF Exact

(* With no more devices than positive slots, a device that gave its slot   *)
(* back finds one of the first Cardinality(DeviceId) free: pigeonhole.     *)
LEMMA FreeSlotExists ==
  ASSUME NEW reg \in RegType, NEW used, Exact(reg, used), NEW d \in DeviceId
  PROVE  \E s \in 1 .. Cardinality(DeviceId) : s \notin Released(reg, used, d)
<1> DEFINE N      == Cardinality(DeviceId)
           others == DeviceId \ {d}
<1>1. SUFFICES ASSUME \A s \in 1 .. N : s \in Released(reg, used, d)
               PROVE  FALSE
  OBVIOUS
<1>2. /\ N \in Nat /\ IsFiniteSet(DeviceId)
      /\ IsFiniteSet(others) /\ Cardinality(others) = N - 1
  BY ConstantsAssumption, FS_CardinalityType, FS_RemoveElement
<1>3. IsFiniteSet(1 .. N) /\ Cardinality(1 .. N) = N
  BY <1>2, FS_Interval
<1> DEFINE f == [s \in 1 .. N |-> CHOOSE e \in others : SlotOf(reg, e) = s]
<1>4. \A s \in 1 .. N : f[s] \in others /\ SlotOf(reg, f[s]) = s
  BY <1>1, ReleasedSlots
<1>5. f \in [1 .. N -> others]
  BY <1>4
<1> HIDE DEF f
<1>6. \E x, y \in 1 .. N : x # y /\ f[x] = f[y]
  <2>1. Cardinality(others) < Cardinality(1 .. N)
    BY <1>2, <1>3
  <2> QED
    BY <1>2, <1>3, <1>5, <2>1, FS_PigeonHole
<1> QED
  BY <1>4, <1>6

(* Hence allocate_slot finds one of those: it never wraps.                 *)
LEMMA AllocateSlotLow ==
  ASSUME Cardinality(DeviceId) <= MaxSlot,
         NEW reg \in RegType, NEW used, Exact(reg, used), NEW d \in DeviceId
  PROVE  AllocateSlot(Released(reg, used, d))
           \in (1 .. Cardinality(DeviceId)) \ Released(reg, used, d)
<1> DEFINE N    == Cardinality(DeviceId)
           free == Released(reg, used, d)
           slot == AllocateSlot(free)
<1>1. N \in Nat /\ MaxSlot \in Nat
  BY ConstantsAssumption, FS_CardinalityType
<1>2. PICK s \in 1 .. N : s \notin free
  BY FreeSlotExists
<1>3. s \in SlotValue \ free
  BY <1>1, <1>2 DEF SlotValue
<1>4. slot \in SlotValue \ free /\ Probe(slot) <= Probe(s)
  BY <1>3, AllocateSlotFirst
<1> HIDE DEF slot
<1>5. slot \in 1 .. N
  BY <1>1, <1>2, <1>4 DEF SlotValue, Probe
<1> QED
  BY <1>4, <1>5 DEF slot

(* Admitting a device, game or not, leaves the table exact, and a game     *)
(* with a positive slot.                                                   *)
LEMMA AdmitExact ==
  ASSUME Cardinality(DeviceId) <= MaxSlot,
         NEW reg \in RegType, Exact(reg, used_slots),
         NEW info \in WireInfo, NEW target \in DeviceId,
         Admit(reg, info, target)
  PROVE  Exact(registry', used_slots')
<1>1. info \in Info /\ info.dev \in DeviceId
  BY WireInfoIsInfo DEF Info
<1>2. CASE info.kind = "game"
  <2> DEFINE free     == Released(reg, used_slots, info.dev)
             slot     == AllocateSlot(free)
             admitted == [info EXCEPT !.slot = slot]
  <2>1. registry' = Upsert(reg, admitted) /\ used_slots' = free \cup {slot}
    BY <1>2 DEF Admit
  <2>2. slot \in (1 .. Cardinality(DeviceId)) \ free
    BY <1>1, AllocateSlotLow
  <2>3. slot \in SlotValue /\ slot > 0
    BY <2>2, ConstantsAssumption, FS_CardinalityType DEF SlotValue
  <2> HIDE DEF slot
  <2>4. admitted \in Info /\ admitted.slot = slot /\ admitted.dev = info.dev
    BY <1>1, <2>3 DEF Info
  <2> HIDE DEF admitted
  <2>5. /\ SlotOf(registry', info.dev) = slot
        /\ \A d \in DeviceId \ {info.dev} : SlotOf(registry', d) = SlotOf(reg, d)
    BY <2>1, <2>3, <2>4, UpsertSetsSlot
  <2>6. free = {SlotOf(reg, e) : e \in DeviceId \ {info.dev}} \ {0}
    BY <1>1, ReleasedSlots
  <2>7. used_slots' = {SlotOf(registry', d) : d \in DeviceId} \ {0}
    <3>1. {SlotOf(registry', e) : e \in DeviceId \ {info.dev}}
            = {SlotOf(reg, e) : e \in DeviceId \ {info.dev}}
      BY <2>5
    <3>2. {SlotOf(registry', d) : d \in DeviceId}
            = {SlotOf(registry', e) : e \in DeviceId \ {info.dev}} \cup {slot}
      BY <1>1, <2>5
    <3> HIDE DEF free
    <3> QED
      BY <2>1, <2>3, <2>6, <3>1, <3>2
  <2>8. \A d, e \in DeviceId : SlotOf(registry', d) = SlotOf(registry', e)
                               /\ SlotOf(registry', d) # 0 => d = e
    <3>1. \A e \in DeviceId \ {info.dev} : SlotOf(reg, e) # slot
      BY <2>2, <2>3, <2>6
    <3>2. \A d, e \in DeviceId : SlotOf(reg, d) = SlotOf(reg, e)
                                /\ SlotOf(reg, d) # 0 => d = e
      BY DEF Exact
    <3> QED
      BY <2>5, <3>1, <3>2
  <2>9. used_slots' \subseteq 1 .. Cardinality(DeviceId)
    BY <2>1, <2>2 DEF Exact, Released
  <2> QED
    BY <2>7, <2>8, <2>9 DEF Exact
<1>3. CASE info.kind # "game"
  <2> DEFINE admitted == [info EXCEPT !.slot = 0]
  <2>1. registry' = Upsert(reg, admitted) /\ used_slots' = used_slots
    BY <1>3 DEF Admit
  <2>2. admitted \in Info /\ admitted.slot = 0
    BY <1>1, ConstantsAssumption DEF Info, SlotValue
  <2> HIDE DEF admitted
  <2>3. \A d \in DeviceId : SlotOf(registry', d) = SlotOf(reg, d)
    BY <2>1, <2>2, UpsertKeepsSlot
  <2> QED
    BY <2>1, <2>3, ExactFrame
<1> QED
  BY <1>2, <1>3

(* An honest registry.update keeps the slot table exact.                   *)
LEMMA UpdateExact ==
  ASSUME TypeInv, Exact(registry, used_slots),
         NEW s \in DeviceId, NEW b \in HonestBatch, RegistryUpdate(s, b)
  PROVE  Exact(registry', used_slots')
<1> DEFINE reg  == Touch(registry, s)
           once == IF Len(b) >= 1 THEN Upsert(reg, b[1]) ELSE reg
<1>1. registry \in RegType /\ Keyed(registry)
  BY TypeInvParts DEF StoreOK
<1>2. reg \in RegType /\ Keyed(reg) /\ \A d \in DeviceId : SlotOf(reg, d) = SlotOf(registry, d)
  BY <1>1, TouchType, TouchSlot
<1>3. /\ b \in UpdateBatch /\ Len(b) \in Nat
      /\ Len(b) >= 1 => b[1] \in Info /\ KeepsSlot(b[1])
      /\ Len(b) >= 2 => b[2] \in Info /\ KeepsSlot(b[2])
  BY WireInfoIsInfo, ConstantsAssumption DEF HonestBatch, UpdateBatch
<1>4. \A i \in Info : KeepsSlot(i) => i.slot <= 0 \/ i.slot = SlotOf(registry, i.dev)
  BY <1>1, HasInfoType DEF KeepsSlot, SlotOf, Info, SlotValue
<1>5. \A i \in Info : i.dev \in DeviceId
  BY DEF Info
<1>6. once \in RegType /\ \A d \in DeviceId : SlotOf(once, d) = SlotOf(registry, d)
  <2>1. CASE Len(b) >= 1
    <3>1. b[1] \in Info /\ (b[1].slot <= 0 \/ b[1].slot = SlotOf(reg, b[1].dev))
      BY <1>2, <1>3, <1>4, <1>5, <2>1
    <3> QED
      BY <1>2, <2>1, <3>1, UpsertType, UpsertKeepsSlot
  <2>2. CASE ~ (Len(b) >= 1)
    BY <1>2, <2>2
  <2> QED
    BY <2>1, <2>2
<1>7. registry' = reg \/ registry' = IF Len(b) >= 2 THEN Upsert(once, b[2]) ELSE once
  BY DEF RegistryUpdate, UpsertAll
<1> HIDE DEF once
<1>8. \A d \in DeviceId : SlotOf(registry', d) = SlotOf(registry, d)
  <2>1. CASE Len(b) >= 2 /\ registry' = Upsert(once, b[2])
    <3>1. b[2] \in Info /\ (b[2].slot <= 0 \/ b[2].slot = SlotOf(once, b[2].dev))
      BY <1>3, <1>4, <1>5, <1>6, <2>1
    <3> QED
      BY <1>6, <2>1, <3>1, UpsertKeepsSlot
  <2>2. CASE registry' = once \/ registry' = reg
    BY <1>2, <1>6, <2>2
  <2> QED
    BY <1>7, <2>1, <2>2
<1> QED
  BY <1>8, ExactFrame DEF RegistryUpdate

(* drop_device gives back the slot of the dropped record and no other.     *)
LEMMA DropExact ==
  ASSUME TypeInv, Exact(registry, used_slots), NEW d \in DeviceId, DropDevice(d)
  PROVE  Exact(registry', used_slots')
<1>1. registry \in RegType
  BY TypeInvParts DEF StoreOK
<1>2. /\ SlotOf(registry', d) = 0
      /\ \A e \in DeviceId \ {d} : SlotOf(registry', e) = SlotOf(registry, e)
  BY <1>1 DEF DropDevice, SlotOf, HasInfo, RegType
<1>3. used_slots' = {SlotOf(registry, e) : e \in DeviceId \ {d}} \ {0}
  BY <1>1, ReleasedSlots DEF DropDevice
<1>4. used_slots' = {SlotOf(registry', e) : e \in DeviceId} \ {0}
  BY <1>2, <1>3
<1>5. used_slots' \subseteq used_slots
  BY DEF DropDevice, Released
<1> QED
  BY <1>2, <1>4, <1>5 DEF Exact

(* The calls that leave the slot table and every held slot alone.          *)
LEMMA FrameExact ==
  ASSUME TypeInv, Exact(registry, used_slots), UNCHANGED used_slots,
         \/ \E s \in DeviceId : registry' = Touch(registry, s)
         \/ \E d \in DeviceId : ~HasInfo(registry, d) /\ RegisterDevice(d)
         \/ UNCHANGED registry
  PROVE  Exact(registry', used_slots')
<1>1. registry \in RegType
  BY TypeInvParts DEF StoreOK
<1>2. CASE \E s \in DeviceId : registry' = Touch(registry, s)
  BY <1>1, <1>2, TouchSlot, ExactFrame
<1>3. CASE \E d \in DeviceId : ~HasInfo(registry, d) /\ RegisterDevice(d)
  <2>1. \A e \in DeviceId : SlotOf(registry', e) = SlotOf(registry, e)
    BY <1>1, <1>3 DEF RegisterDevice, SlotOf, HasInfo, RegType
  <2> QED
    BY <2>1, ExactFrame
<1> QED
  BY <1>2, <1>3

SlotsInv == TypeInv /\ Exact(registry, used_slots)

(* Disciplined devices and applications are a special case.                *)
LEMMA DisciplinedIsNext == DisciplinedNext => Next
  BY DEF DisciplinedNext, Next, HonestBatch

(* A new engine has no slots in use and no records.                        *)
LEMMA SlotsInvInit == Init => SlotsInv
<1> SUFFICES ASSUME Init PROVE SlotsInv
  OBVIOUS
<1>1. \A d \in DeviceId : SlotOf(registry, d) = 0
  BY DEF Init, SlotOf, HasInfo
<1>2. Exact(registry, used_slots)
  BY <1>1 DEF Init, Exact
<1> QED
  BY <1>2, TypeInvInit DEF SlotsInv

(* Every disciplined call keeps the slot table exact.                      *)
LEMMA SlotsInvStep ==
  ASSUME Cardinality(DeviceId) <= MaxSlot, SlotsInv, [DisciplinedNext]_vars
  PROVE  SlotsInv'
<1>1. TypeInv /\ Exact(registry, used_slots) /\ registry \in RegType
  BY TypeInvParts DEF SlotsInv, StoreOK
<1>2. TypeInv'
  BY <1>1, TypeInvStep, DisciplinedIsNext
<1>3. ASSUME NEW call \in RegisterCall, RegistryRegister(call[1], call[2])
      PROVE  Exact(registry', used_slots')
  <2> DEFINE s    == call[1]
             info == call[2]
             reg  == Touch(registry, s)
  <2>1. s \in DeviceId /\ info \in WireInfo
    BY ConstantsAssumption
  <2>2. CASE Admit(reg, info, s)
    <3>1. reg \in RegType /\ Exact(reg, used_slots)
      BY <1>1, <2>1, TouchType, TouchSlot, ExactFrame, TypeInvParts DEF StoreOK
    <3> QED
      BY <2>1, <2>2, <3>1, AdmitExact
  <2>3. CASE registry' = reg /\ UNCHANGED used_slots
    BY <1>1, <2>1, <2>3, FrameExact
  <2> QED
    BY <1>3, <2>2, <2>3 DEF RegistryRegister
<1>4. ASSUME NEW d \in DeviceId, ApproveRegistration(d)
      PROVE  Exact(registry', used_slots')
  <2>1. pending[d].info \in WireInfo /\ pending[d].target \in DeviceId
    BY <1>1, <1>4, TypeInvParts DEF PendingOK, PendingEntry, ApproveRegistration
  <2> QED
    BY <1>1, <1>4, <2>1, AdmitExact DEF ApproveRegistration
<1>5. ASSUME NEW s \in DeviceId, NEW b \in HonestBatch, RegistryUpdate(s, b)
      PROVE  Exact(registry', used_slots')
  BY <1>1, <1>5, UpdateExact
<1>6. ASSUME NEW d \in DeviceId, DropDevice(d)
      PROVE  Exact(registry', used_slots')
  BY <1>1, <1>6, DropExact
<1>7. ASSUME NEW s \in DeviceId,
             \/ RegistryList(s) \/ ProcessPing(s) \/ ProcessOther(s) \/ RegisterDeviceWasm(s)
             \/ \E t \in DeviceId : RegistryRelay(s, t)
      PROVE  Exact(registry', used_slots')
  <2>1. registry' = Touch(registry, s) /\ UNCHANGED used_slots
    BY <1>7 DEF RegistryList, ProcessPing, ProcessOther, RegisterDeviceWasm, RegistryRelay
  <2> QED
    BY <1>1, <2>1, FrameExact
<1>8. ASSUME NEW d \in DeviceId, ~HasInfo(registry, d) /\ RegisterDevice(d)
      PROVE  Exact(registry', used_slots')
  <2>1. UNCHANGED used_slots
    BY <1>8 DEF RegisterDevice
  <2> QED
    BY <1>1, <1>8, <2>1, FrameExact
<1>9. ASSUME \/ \E d \in DeviceId : DenyRegistration(d)
             \/ \E kind \in LocalKind : InitLocalDevice(kind)
             \/ \E value \in BOOLEAN : SetAutoApprove(value)
             \/ UNCHANGED vars
      PROVE  Exact(registry', used_slots')
  <2>1. UNCHANGED <<registry, used_slots>>
    BY <1>9 DEF DenyRegistration, InitLocalDevice, SetAutoApprove, vars
  <2> QED
    BY <1>1, <2>1, FrameExact
<1>10. Exact(registry', used_slots')
  BY <1>3, <1>4, <1>5, <1>6, <1>7, <1>8, <1>9 DEF DisciplinedNext, Common
<1> QED
  BY <1>2, <1>10 DEF SlotsInv

(* Among devices that echo their slots and applications that register_device *)
(* only unregistered ids, and with no more devices than positive slots, the  *)
(* slot table is exact (SlotsExact): no leak, no slot given twice; and slots *)
(* stay within the number of devices (SlotsDense), so the search never wraps.*)
THEOREM SlotsCorrect ==
  ASSUME Cardinality(DeviceId) <= MaxSlot
  PROVE  DisciplinedSpec => [](SlotsExact /\ SlotsDense)
<1>1. SlotsInv /\ [DisciplinedNext]_vars => SlotsInv'
  BY SlotsInvStep
<1>2. SlotsInv => SlotsExact /\ SlotsDense
  BY ExactIsSlots DEF SlotsInv
<1> QED
  BY <1>1, <1>2, SlotsInvInit, PTL DEF DisciplinedSpec

-----------------------------------------------------------------------------
(* What onHostConnected says.                                              *)

SaysNoConnect(msgs) == \A n \in 1 .. Len(msgs) : msgs[n].method # "onHostConnected"

(* One receiver's messages of a call only announce slots held.             *)
TellsHeld(reg, msgs) ==
  \A n \in 1 .. Len(msgs) :
    msgs[n].method = "onHostConnected" =>
      LET told == msgs[n].info
      IN  told.slot > 0 /\ HasInfo(reg, told.dev) /\ reg[told.dev].slot = told.slot

(* Messages that are no onHostConnected announce nothing wrong.            *)
LEMMA NoConnectTellsHeld ==
  ASSUME NEW reg, NEW msgs, SaysNoConnect(msgs)
  PROVE  TellsHeld(reg, msgs)
  BY DEF SaysNoConnect, TellsHeld

(* Delivery does not change what is announced.                             *)
LEMMA DeliverTellsHeld ==
  ASSUME NEW reg, NEW store, NEW D, NEW msgs, TellsHeld(store, msgs)
  PROVE  \A d \in DeviceId : TellsHeld(store, Deliver(reg, D, msgs)[d])
  BY DEF Deliver, TellsHeld

(* A call that sends nothing announces nothing wrong.                      *)
LEMMA QuietTellsHeld ==
  ASSUME NEW store
  PROVE  \A d \in DeviceId : TellsHeld(store, Quiet[d])
  BY DEF Quiet, TellsHeld

(* One message that is no onHostConnected announces no host.               *)
LEMMA SingleNoConnect ==
  ASSUME NEW m, m.method # "onHostConnected"
  PROVE  SaysNoConnect(<<m>>)
  BY DEF SaysNoConnect

(* Answers, lists, echoes and relayed invokes announce no host.            *)
LEMMA AnswersNoConnect ==
  /\ \A ok : SaysNoConnect(<<OnRegister(ok)>>)
  /\ \A infos : SaysNoConnect(<<OnList(infos)>>)
  /\ \A i : SaysNoConnect(<<HostMsg("onHostUpdate", i)>>)
  /\ \A i : SaysNoConnect(<<HostMsg("onHostDisconnected", i)>>)
  /\ SaysNoConnect(<<[method |-> "relayed"]>>)
  /\ SaysNoConnect(<<[method |-> "echo"]>>)
  /\ SaysNoConnect(<<>>)
  BY SingleNoConnect DEF OnRegister, OnList, HostMsg, SaysNoConnect

(* registry.update announces updates, never a connected host.              *)
LEMMA UpdateNoConnect ==
  ASSUME NEW reg, NEW b
  PROVE  SaysNoConnect(AllUpdateNews(reg, b))
<1> DEFINE first  == IF Len(b) >= 1 THEN UpdateNews(reg, b[1]) ELSE <<>>
           second == IF Len(b) >= 2 THEN UpdateNews(Upsert(reg, b[1]), b[2]) ELSE <<>>
<1>1. SaysNoConnect(first) /\ SaysNoConnect(second)
  BY AnswersNoConnect DEF UpdateNews
<1>2. first \in {<<>>, <<HostMsg("onHostUpdate", Upsert(reg, b[1])[b[1].dev])>>}
  BY DEF UpdateNews
<1>3. second \in {<<>>, <<HostMsg("onHostUpdate", Upsert(Upsert(reg, b[1]), b[2])[b[2].dev])>>}
  BY DEF UpdateNews
<1>4. AllUpdateNews(reg, b) = first \o second
  BY DEF AllUpdateNews
<1> HIDE DEF first, second
<1> QED
  BY <1>1, <1>2, <1>3, <1>4 DEF SaysNoConnect

(* An answer and then an announcement announce what the latter does.       *)
LEMMA AnswerThenNews ==
  ASSUME NEW store, NEW m, m.method # "onHostConnected"
  PROVE  /\ TellsHeld(store, <<m>> \o <<>>)
         /\ \A x : TellsHeld(store, <<x>>) => TellsHeld(store, <<m>> \o <<x>>)
<1>1. <<m>> \o <<>> = <<m>>
  OBVIOUS
<1>2. TellsHeld(store, <<m>> \o <<>>)
  BY <1>1 DEF TellsHeld
<1>3. ASSUME NEW x, TellsHeld(store, <<x>>)
      PROVE  TellsHeld(store, <<m>> \o <<x>>)
  <2> DEFINE c == <<m>> \o <<x>>
  <2>1. <<m>> \in Seq({m, x}) /\ <<x>> \in Seq({m, x})
    OBVIOUS
  <2>2. Len(c) = 2 /\ \A n \in 1 .. 2 : c[n] = IF n <= 1 THEN m ELSE <<x>>[n - 1]
    BY <2>1, ConcatProperties
  <2> HIDE DEF c
  <2>3. c[1] = m /\ c[2] = x
    BY <2>2
  <2>4. TellsHeld(store, c)
    BY <1>3, <2>2, <2>3 DEF TellsHeld
  <2> QED
    BY <2>4 DEF c
<1> QED
  BY <1>2, <1>3

(* Admission announces a positive slot, the one then stored.               *)
LEMMA AdmitTellsHeld ==
  ASSUME Cardinality(DeviceId) <= MaxSlot,
         NEW reg \in RegType, Keyed(reg), Exact(reg, used_slots),
         NEW info \in WireInfo, NEW target \in DeviceId,
         Admit(reg, info, target)
  PROVE  \A d \in DeviceId : TellsHeld(registry', sent'[d])
<1> DEFINE game     == info.kind = "game"
           free     == IF game THEN Released(reg, used_slots, info.dev) ELSE used_slots
           slot     == IF game THEN AllocateSlot(free) ELSE 0
           admitted == [info EXCEPT !.slot = slot]
           stored   == Upsert(reg, admitted)
           news     == IF game THEN <<HostMsg("onHostConnected", admitted)>> ELSE <<>>
           answer   == <<OnRegister(TRUE)>> \o news
<1>1. info \in Info /\ info.dev \in DeviceId
  BY WireInfoIsInfo DEF Info
<1>2. /\ registry' = stored
      /\ sent' = [Deliver(stored, Viewers(stored), news) EXCEPT
                    ![target] = Deliver(stored, {target}, answer)[target]]
  BY DEF Admit
<1>3. TellsHeld(stored, news)
  <2>1. CASE game
    <3>1. slot \in (1 .. Cardinality(DeviceId)) \ free
      BY <1>1, <2>1, AllocateSlotLow
    <3>2. slot \in SlotValue /\ slot > 0
      BY <3>1, ConstantsAssumption, FS_CardinalityType DEF SlotValue
    <3> HIDE DEF slot
    <3>3. admitted \in Info /\ admitted.slot = slot
      BY <1>1, <3>2 DEF Info
    <3> DEFINE told == OnWire(admitted)
    <3>4. told.slot = slot /\ told.dev = admitted.dev
      BY <3>3 DEF OnWire, Info
    <3> HIDE DEF admitted, told
    <3>5. SlotOf(stored, admitted.dev) = slot /\ stored \in RegType
      BY <3>2, <3>3, UpsertSetsSlot, UpsertType
    <3>6. HasInfo(stored, told.dev) /\ stored[told.dev].slot = told.slot
      BY <3>2, <3>4, <3>5 DEF SlotOf
    <3>7. news = <<HostMsg("onHostConnected", admitted)>>
      BY <2>1
    <3>8. HostMsg("onHostConnected", admitted).info = told
      BY DEF HostMsg, told
    <3> QED
      BY <3>2, <3>4, <3>6, <3>7, <3>8 DEF TellsHeld
  <2>2. CASE ~game
    BY <2>2 DEF TellsHeld
  <2> QED
    BY <2>1, <2>2
<1>4. TellsHeld(stored, answer)
  <2>1. OnRegister(TRUE).method # "onHostConnected"
    BY DEF OnRegister
  <2>2. news = <<>> \/ news = <<HostMsg("onHostConnected", admitted)>>
    OBVIOUS
  <2> HIDE DEF news, stored, admitted
  <2> QED
    BY <1>3, <2>1, <2>2, AnswerThenNews
<1>5. /\ \A d \in DeviceId : TellsHeld(stored, Deliver(stored, Viewers(stored), news)[d])
      /\ \A d \in DeviceId : TellsHeld(stored, Deliver(stored, {target}, answer)[d])
  BY <1>3, <1>4, DeliverTellsHeld
<1>6. Deliver(stored, Viewers(stored), news) = [d \in DeviceId |->
         Deliver(stored, Viewers(stored), news)[d]]
  BY DEF Deliver
<1> HIDE DEF stored, news, answer
<1> QED
  BY <1>2, <1>5, <1>6

HeldStep == \A d \in DeviceId : TellsHeld(registry', sent'[d])

(* Every disciplined call announces only slots the registry then holds.    *)
LEMMA AnnouncedStep ==
  ASSUME Cardinality(DeviceId) <= MaxSlot, SlotsInv, DisciplinedNext
  PROVE  HeldStep
<1> USE DEF HeldStep
<1>1. /\ TypeInv /\ Exact(registry, used_slots)
      /\ registry \in RegType /\ Keyed(registry)
  BY TypeInvParts DEF SlotsInv, StoreOK
<1>2. ASSUME NEW call \in RegisterCall, RegistryRegister(call[1], call[2])
      PROVE  HeldStep
  <2> DEFINE s    == call[1]
             info == call[2]
             reg  == Touch(registry, s)
  <2>1. s \in DeviceId /\ info \in WireInfo
    BY ConstantsAssumption
  <2>2. CASE Admit(reg, info, s)
    <3>1. reg \in RegType /\ Keyed(reg) /\ Exact(reg, used_slots)
      BY <1>1, <2>1, TouchType, TouchSlot, ExactFrame
    <3> QED
      BY <2>1, <2>2, <3>1, AdmitTellsHeld
  <2>3. CASE sent' = Quiet
    BY <2>3, QuietTellsHeld
  <2> QED
    BY <1>2, <2>2, <2>3 DEF RegistryRegister
<1>3. ASSUME NEW d \in DeviceId, ApproveRegistration(d)
      PROVE  HeldStep
  <2>1. pending[d].info \in WireInfo /\ pending[d].target \in DeviceId
    BY <1>1, <1>3, TypeInvParts DEF PendingOK, PendingEntry, ApproveRegistration
  <2> QED
    BY <1>1, <1>3, <2>1, AdmitTellsHeld DEF ApproveRegistration
<1>4. ASSUME NEW s \in DeviceId, NEW b, RegistryUpdate(s, b)
      PROVE  HeldStep
  <2>1. TellsHeld(registry', AllUpdateNews(Touch(registry, s), b))
    BY UpdateNoConnect, NoConnectTellsHeld
  <2> QED
    BY <1>4, <2>1, DeliverTellsHeld, QuietTellsHeld DEF RegistryUpdate
<1>5. ASSUME NEW s \in DeviceId,
             \/ RegistryList(s) \/ ProcessPing(s) \/ ProcessOther(s) \/ RegisterDeviceWasm(s)
             \/ \E t \in DeviceId : RegistryRelay(s, t)
      PROVE  HeldStep
  BY <1>5, AnswersNoConnect, NoConnectTellsHeld, DeliverTellsHeld, QuietTellsHeld
     DEF RegistryList, ProcessPing, ProcessOther, RegisterDeviceWasm, RegistryRelay
<1>6. ASSUME NEW d \in DeviceId, DropDevice(d) \/ DenyRegistration(d)
      PROVE  HeldStep
  <2>1. \A msgs, reg, D : SaysNoConnect(msgs) =>
          \A e \in DeviceId : TellsHeld(registry', Deliver(reg, D, msgs)[e])
    BY NoConnectTellsHeld, DeliverTellsHeld
  <2>2. CASE DropDevice(d)
    BY <2>1, <2>2, AnswersNoConnect DEF DropDevice
  <2>3. CASE DenyRegistration(d)
    BY <2>1, <2>3, AnswersNoConnect DEF DenyRegistration
  <2> QED
    BY <1>6, <2>2, <2>3
<1>7. ASSUME \/ \E d \in DeviceId : RegisterDevice(d)
             \/ \E kind \in LocalKind : InitLocalDevice(kind)
             \/ \E value \in BOOLEAN : SetAutoApprove(value)
      PROVE  HeldStep
  BY <1>7, QuietTellsHeld DEF RegisterDevice, InitLocalDevice, SetAutoApprove
<1> QED
  BY <1>2, <1>3, <1>4, <1>5, <1>6, <1>7 DEF DisciplinedNext, Common

(* Under the same discipline, whoever is told onHostConnected, by an       *)
(* automatic or a manual approval, is told a positive slot that the        *)
(* registry then holds for that very game (AnnouncedSlotsHeld).            *)
THEOREM AnnouncedCorrect ==
  ASSUME Cardinality(DeviceId) <= MaxSlot
  PROVE  DisciplinedSpec => AnnouncedSlotsHeld
<1>1. SlotsInv /\ [DisciplinedNext]_vars => SlotsInv'
  BY SlotsInvStep
<1>2. SlotsInv /\ [DisciplinedNext]_vars => [HeldStep]_vars
  BY AnnouncedStep
<1>3. [HeldStep]_vars =>
        [\A d \in DeviceId : \A n \in 1 .. Len(sent'[d]) :
           sent'[d][n].method = "onHostConnected" =>
             LET told == sent'[d][n].info
             IN  /\ told.slot > 0
                 /\ HasInfo(registry', told.dev)
                 /\ registry'[told.dev].slot = told.slot]_vars
  BY DEF HeldStep, TellsHeld
<1> QED
  BY <1>1, <1>2, <1>3, SlotsInvInit, PTL DEF DisciplinedSpec, AnnouncedSlotsHeld

-----------------------------------------------------------------------------
(* What a viewer that keeps a host list makes of the messages.             *)

Reports(msg, g) == msg.method \in HostMethod /\ msg.info.dev = g

SaysNothingOf(msgs, g) == \A n \in 1 .. Len(msgs) : ~Reports(msgs[n], g)

(* What message x says of the game it is about.                            *)
Says(x) == IF x.method = "onHostDisconnected" THEN {} ELSE {x.info.slot}

(* Messages about other devices change nothing.                            *)
LEMMA SilentShown ==
  ASSUME NEW old, NEW msgs, NEW g, SaysNothingOf(msgs, g)
  PROVE  ShownAfter(old, msgs, g) = old
BY DEF SaysNothingOf, Reports, ShownAfter

(* The last message about a game counts.                                   *)
LEMMA LastShown ==
  ASSUME NEW old, NEW msgs, NEW g, Len(msgs) \in Nat,
         NEW k \in 1 .. Len(msgs), Reports(msgs[k], g),
         \A n \in 1 .. Len(msgs) : n > k => ~Reports(msgs[n], g)
  PROVE  ShownAfter(old, msgs, g) = Says(msgs[k])
<1> DEFINE about == {n \in 1 .. Len(msgs) : msgs[n].method \in HostMethod
                                              /\ msgs[n].info.dev = g}
           last == CHOOSE n \in about : \A m \in about : m <= n
<1>1. k \in about /\ \A m \in about : m <= k
  BY DEF Reports
<1>2. last \in about /\ \A m \in about : m <= last
  BY <1>1
<1>3. last \in Int /\ k \in Int
  BY <1>2
<1>4. last = k
  <2> HIDE DEF about, last
  <2> QED
    BY <1>1, <1>2, <1>3
<1>5. about # {}
  BY <1>1
<1>6. ShownAfter(old, msgs, g) = IF about = {} THEN old ELSE Says(msgs[last])
  BY DEF ShownAfter, Says
<1> QED
  BY <1>4, <1>5, <1>6

(* A list of one message counts if it is about the game.                   *)
LEMMA OneShown ==
  ASSUME NEW old, NEW x, NEW g, NEW msgs, msgs = <<x>>
  PROVE  /\ Reports(x, g) => ShownAfter(old, msgs, g) = Says(x)
         /\ ~Reports(x, g) => ShownAfter(old, msgs, g) = old
<1>2. Len(msgs) = 1 /\ msgs[1] = x
  OBVIOUS
<1>3. /\ Reports(x, g) => ShownAfter(old, msgs, g) = Says(x)
      /\ ~Reports(x, g) => ShownAfter(old, msgs, g) = old
  <2>1. CASE Reports(x, g)
    <3>1. \E k \in 1 .. Len(msgs) : /\ Reports(msgs[k], g) /\ msgs[k] = x
                                    /\ \A n \in 1 .. Len(msgs) : n > k => ~Reports(msgs[n], g)
      BY <1>2, <2>1
    <3>2. Len(msgs) \in Nat
      BY <1>2
    <3> QED
      BY <2>1, <3>1, <3>2, LastShown
  <2>2. CASE ~Reports(x, g)
    <3>1. SaysNothingOf(msgs, g)
      BY <1>2, <2>2 DEF SaysNothingOf
    <3> QED
      BY <2>2, <3>1, SilentShown
  <2> QED
    BY <2>1, <2>2
<1> QED
  BY <1>3

(* The messages of a list put together from two.                           *)
LEMMA TwoList ==
  ASSUME NEW x, NEW y, NEW msgs, msgs = <<x>> \o <<y>>
  PROVE  Len(msgs) = 2 /\ msgs[1] = x /\ msgs[2] = y
<1>1. <<x>> \in Seq({x, y}) /\ <<y>> \in Seq({x, y})
  OBVIOUS
<1>2. Len(msgs) = 2 /\ \A n \in 1 .. 2 : msgs[n] = IF n <= 1 THEN x ELSE <<y>>[n - 1]
  BY <1>1, ConcatProperties
<1> QED
  BY <1>2

(* Of two messages the last that is about the game counts.                 *)
LEMMA TwoShown ==
  ASSUME NEW old, NEW msgs, NEW g, Len(msgs) = 2
  PROVE  /\ Reports(msgs[2], g) => ShownAfter(old, msgs, g) = Says(msgs[2])
         /\ ~Reports(msgs[2], g) /\ Reports(msgs[1], g) =>
              ShownAfter(old, msgs, g) = Says(msgs[1])
         /\ ~Reports(msgs[2], g) /\ ~Reports(msgs[1], g) => ShownAfter(old, msgs, g) = old
<1>1. Len(msgs) = 2
  OBVIOUS
<1>2. Len(msgs) \in Nat
  BY <1>1
<1>3. CASE Reports(msgs[2], g)
  <2>1. \E k \in 1 .. Len(msgs) : /\ Reports(msgs[k], g) /\ msgs[k] = msgs[2]
                                  /\ \A n \in 1 .. Len(msgs) : n > k => ~Reports(msgs[n], g)
    BY <1>1, <1>3
  <2> QED
    BY <1>2, <1>3, <2>1, LastShown
<1>4. CASE ~Reports(msgs[2], g) /\ Reports(msgs[1], g)
  <2>1. 1 \in 1 .. Len(msgs) /\ \A n \in 1 .. Len(msgs) : n > 1 => n = 2
    BY <1>1
  <2>2. \E k \in 1 .. Len(msgs) : /\ Reports(msgs[k], g) /\ msgs[k] = msgs[1]
                                  /\ \A n \in 1 .. Len(msgs) : n > k => ~Reports(msgs[n], g)
    BY <1>1, <1>4, <2>1
  <2> QED
    BY <1>2, <1>4, <2>2, LastShown
<1>5. CASE ~Reports(msgs[2], g) /\ ~Reports(msgs[1], g)
  <2>1. SaysNothingOf(msgs, g)
    BY <1>1, <1>5 DEF SaysNothingOf
  <2> QED
    BY <1>5, <2>1, SilentShown
<1> QED
  BY <1>3, <1>4, <1>5

(* Host reports keep the name and the slot of the info they carry.         *)
LEMMA ReportSays ==
  ASSUME NEW m \in HostMethod, NEW i \in Info, NEW g
  PROVE  /\ Reports(HostMsg(m, i), g) <=> i.dev = g
         /\ Says(HostMsg(m, i)) = IF m = "onHostDisconnected" THEN {} ELSE {i.slot}
<1>1. OnWire(i).dev = i.dev /\ OnWire(i).slot = i.slot
  BY DEF OnWire, Info
<1> QED
  BY <1>1 DEF Reports, Says, HostMsg

(* The other answers are no host reports.                                  *)
LEMMA AnswersAboutNobody ==
  ASSUME NEW g
  PROVE  /\ \A ok : ~Reports(OnRegister(ok), g) /\ SaysNothingOf(<<OnRegister(ok)>>, g)
         /\ \A infos : SaysNothingOf(<<OnList(infos)>>, g)
         /\ SaysNothingOf(<<[method |-> "relayed"]>>, g)
         /\ SaysNothingOf(<<[method |-> "echo"]>>, g)
         /\ SaysNothingOf(<<>>, g)
<1>1. \A x : ~Reports(x, g) => SaysNothingOf(<<x>>, g)
  BY DEF SaysNothingOf
<1>2. /\ \A ok : ~Reports(OnRegister(ok), g)
      /\ \A infos : ~Reports(OnList(infos), g)
      /\ ~Reports([method |-> "relayed"], g)
      /\ ~Reports([method |-> "echo"], g)
  BY DEF Reports, HostMethod, OnRegister, OnList
<1> QED
  BY <1>1, <1>2 DEF SaysNothingOf

(* What a packet's sender is filed with says nothing of games.             *)
LEMMA TouchShown ==
  ASSUME NEW reg \in RegType, NEW s \in DeviceId, NEW g \in DeviceId
  PROVE  /\ SlotShown(Touch(reg, s), g) = SlotShown(reg, g)
         /\ \A k : KindIs(Touch(reg, s), g, k) <=> KindIs(reg, g, k)
  BY DEF SlotShown, KindIs, HasInfo, Touch, RegType

(* A stored info is what the registry shows of its game.                   *)
LEMMA UpsertShown ==
  ASSUME NEW reg \in RegType, NEW i \in Info, NEW g \in DeviceId
  PROVE  /\ g # i.dev => /\ SlotShown(Upsert(reg, i), g) = SlotShown(reg, g)
                         /\ \A k : KindIs(Upsert(reg, i), g, k) <=> KindIs(reg, g, k)
         /\ g = i.dev => /\ Upsert(reg, i)[g] \in Info
                         /\ Upsert(reg, i)[g].dev = g
                         /\ \A k : KindIs(Upsert(reg, i), g, k) <=> i.kind = k
                         /\ i.kind = "game" =>
                              SlotShown(Upsert(reg, i), g) = {Upsert(reg, i)[g].slot}
<1> DEFINE new == IF HasInfo(reg, i.dev) THEN Merge(reg[i.dev], i) ELSE i
<1>1. i.dev \in DeviceId
  BY DEF Info
<1>2. new \in Info /\ new.dev = i.dev /\ new.kind = i.kind
  <2>1. CASE HasInfo(reg, i.dev)
    <3>1. reg[i.dev] \in Info
      BY <1>1, <2>1, HasInfoType
    <3>2. Merge(reg[i.dev], i).kind = i.kind
      BY DEF Merge, Info
    <3> QED
      BY <2>1, <3>1, <3>2, MergeType
  <2>2. CASE ~HasInfo(reg, i.dev)
    BY <2>2
  <2> QED
    BY <2>1, <2>2
<1>3. Upsert(reg, i) = [reg EXCEPT ![i.dev] = new]
  BY DEF Upsert
<1> HIDE DEF new
<1>4. CASE g # i.dev
  <2>1. Upsert(reg, i)[g] = reg[g]
    BY <1>3, <1>4 DEF RegType
  <2> QED
    BY <1>4, <2>1 DEF SlotShown, KindIs, HasInfo
<1>5. CASE g = i.dev
  <2>1. Upsert(reg, i)[g] = new
    BY <1>1, <1>3, <1>5 DEF RegType
  <2>2. HasInfo(Upsert(reg, i), g)
    BY <1>2, <2>1, InfoHasInfo
  <2> QED
    BY <1>2, <1>5, <2>1, <2>2 DEF SlotShown, KindIs
<1> QED
  BY <1>4, <1>5

(* The registered viewers are among those who are told.                    *)
LEMMA ViewerNamed ==
  ASSUME NEW reg \in RegType, Keyed(reg), NEW v \in DeviceId, KindIs(reg, v, "viewer"),
         v # EmptyId
  PROVE  v \in Viewers(reg) /\ v \in Named(reg, {"viewer", "server"}) /\ Reachable(reg, v)
  BY DEF Keyed, KindIs, HasInfo, Viewers, Named, Reachable

(* What viewer v makes of a call that changes `reg` to `next`, about g.    *)
Tracked(reg, next, v, g, msgs) ==
  /\ KindIs(reg, v, "viewer") /\ KindIs(next, v, "viewer")
  /\ next[g] = Absent \/ KindIs(next, g, "game")
  => ShownAfter(SlotShown(reg, g), msgs, g) = SlotShown(next, g)

(* Calls that file a sender at most, and tell nothing of games.            *)
LEMMA TouchTracked ==
  ASSUME NEW reg \in RegType, NEW next, NEW v \in DeviceId, NEW g \in DeviceId,
         next = reg \/ \E s \in DeviceId : next = Touch(reg, s),
         NEW D, NEW msgs, SaysNothingOf(msgs, g)
  PROVE  /\ Tracked(reg, next, v, g, Deliver(next, D, msgs)[v])
         /\ Tracked(reg, next, v, g, Quiet[v])
<1>1. SlotShown(next, g) = SlotShown(reg, g)
  BY TouchShown
<1>2. SaysNothingOf(Deliver(next, D, msgs)[v], g) /\ SaysNothingOf(Quiet[v], g)
  BY AnswersAboutNobody DEF Deliver, Quiet
<1> QED
  BY <1>1, <1>2, SilentShown DEF Tracked

(* The admission of a game is announced to all viewers, with its slot.     *)
LEMMA AdmitTracked ==
  ASSUME Cardinality(DeviceId) <= MaxSlot,
         NEW reg \in RegType, Keyed(reg), Exact(reg, used_slots),
         NEW info \in WireInfo, NEW target \in DeviceId, Admit(reg, info, target),
         NEW v \in DeviceId, v # EmptyId, NEW g \in DeviceId
  PROVE  Tracked(reg, registry', v, g, sent'[v])
<1> DEFINE game     == info.kind = "game"
           free     == IF game THEN Released(reg, used_slots, info.dev) ELSE used_slots
           slot     == IF game THEN AllocateSlot(free) ELSE 0
           admitted == [info EXCEPT !.slot = slot]
           stored   == Upsert(reg, admitted)
           told     == HostMsg("onHostConnected", admitted)
           news     == IF game THEN <<told>> ELSE <<>>
           answer   == <<OnRegister(TRUE)>> \o news
<1>1. info \in Info /\ info.dev \in DeviceId
  BY WireInfoIsInfo DEF Info
<1>2. /\ registry' = stored
      /\ sent' = [Deliver(stored, Viewers(stored), news) EXCEPT
                    ![target] = Deliver(stored, {target}, answer)[target]]
  BY DEF Admit
<1>3. slot \in SlotValue /\ (game => slot > 0)
  <2>1. CASE game
    <3>1. slot \in (1 .. Cardinality(DeviceId)) \ free
      BY <1>1, <2>1, AllocateSlotLow
    <3> QED
      BY <3>1, ConstantsAssumption, FS_CardinalityType DEF SlotValue
  <2>2. CASE ~game
    BY <2>2, ConstantsAssumption DEF SlotValue
  <2> QED
    BY <2>1, <2>2
<1> HIDE DEF slot
<1>4. /\ admitted \in Info /\ admitted.slot = slot
      /\ admitted.dev = info.dev /\ admitted.kind = info.kind
  BY <1>1, <1>3 DEF Info
<1> HIDE DEF admitted
<1>5. SUFFICES ASSUME KindIs(stored, v, "viewer"),
                      stored[g] = Absent \/ KindIs(stored, g, "game")
               PROVE  ShownAfter(SlotShown(reg, g), sent'[v], g) = SlotShown(stored, g)
  BY <1>2 DEF Tracked
<1>6. stored \in RegType /\ Keyed(stored)
  BY <1>4, UpsertType
<1>7. v \in Viewers(stored) /\ Reachable(stored, v)
  BY <1>5, <1>6, ViewerNamed
<1>8. sent'[v] = news \/ sent'[v] = answer
  BY <1>2, <1>7 DEF Deliver
<1>9. /\ Reports(told, g) <=> admitted.dev = g
      /\ Says(told) = {slot}
  BY <1>4, ReportSays DEF HostMethod
<1>10. ~Reports(OnRegister(TRUE), g)
  BY AnswersAboutNobody
<1> HIDE DEF told
<1>11. CASE game /\ g = admitted.dev
  <2>1. news = <<told>> /\ Len(answer) = 2 /\ answer[2] = told
    BY <1>11, TwoList
  <2>2. ShownAfter(SlotShown(reg, g), sent'[v], g) = {slot}
    <3> HIDE DEF news, answer
    <3>1. Reports(told, g)
      BY <1>9, <1>11
    <3>2. ShownAfter(SlotShown(reg, g), news, g) = Says(told)
      BY <2>1, <3>1, OneShown
    <3>3. ShownAfter(SlotShown(reg, g), answer, g) = Says(told)
      BY <2>1, <3>1, TwoShown
    <3> QED
      BY <1>8, <1>9, <3>2, <3>3
  <2>3. SlotShown(stored, g) = {stored[g].slot}
    BY <1>1, <1>4, <1>11, UpsertShown
  <2>4. stored[g].slot = slot
    <3>1. SlotOf(stored, g) = slot
      BY <1>3, <1>4, <1>11, UpsertSetsSlot
    <3> QED
      BY <1>3, <1>11, <3>1 DEF SlotOf
  <2> QED
    BY <2>2, <2>3, <2>4
<1>12. CASE g # admitted.dev
  <2>1. SlotShown(stored, g) = SlotShown(reg, g)
    BY <1>4, <1>12, UpsertShown
  <2>2. ShownAfter(SlotShown(reg, g), sent'[v], g) = SlotShown(reg, g)
    <3>1. CASE game
      <4>1. /\ news = <<told>>
            /\ Len(answer) = 2 /\ answer[1] = OnRegister(TRUE) /\ answer[2] = told
        BY <3>1, TwoList
      <4> HIDE DEF news, answer
      <4>2. ~Reports(told, g)
        BY <1>9, <1>12
      <4>3. ShownAfter(SlotShown(reg, g), news, g) = SlotShown(reg, g)
        BY <4>1, <4>2, OneShown
      <4>4. ShownAfter(SlotShown(reg, g), answer, g) = SlotShown(reg, g)
        BY <1>10, <4>1, <4>2, TwoShown
      <4> QED
        BY <1>8, <4>3, <4>4
    <3>2. CASE ~game
      <4>1. news = <<>>
        BY <3>2
      <4>2. <<OnRegister(TRUE)>> \o <<>> = <<OnRegister(TRUE)>>
        OBVIOUS
      <4> HIDE DEF news
      <4>3. answer = <<OnRegister(TRUE)>>
        BY <4>1, <4>2
      <4> HIDE DEF answer
      <4>4. ShownAfter(SlotShown(reg, g), news, g) = SlotShown(reg, g)
        BY <4>1, SilentShown, AnswersAboutNobody
      <4>5. ShownAfter(SlotShown(reg, g), answer, g) = SlotShown(reg, g)
        BY <1>10, <4>3, OneShown
      <4> QED
        BY <1>8, <4>4, <4>5
    <3> QED
      BY <3>1, <3>2
  <2> QED
    BY <2>1, <2>2
<1>13. CASE ~game /\ g = admitted.dev
  <2>1. KindIs(stored, g, "game") => info.kind = "game"
    BY <1>4, <1>13, UpsertShown
  <2>2. stored[g] # Absent
    <3>1. stored[g] \in Info
      BY <1>4, <1>13, UpsertShown
    <3> QED
      BY <3>1, ConstantsAssumption
  <2> QED
    BY <1>5, <1>13, <2>1, <2>2
<1> QED
  BY <1>11, <1>12, <1>13

(* An update is announced as it is stored, info by info.                   *)
LEMMA UpdateTracked ==
  ASSUME NEW reg \in RegType, Keyed(reg), NEW next, NEW b \in UpdateBatch,
         next = UpsertAll(reg, b),
         NEW v \in DeviceId, v # EmptyId, NEW g \in DeviceId
  PROVE  Tracked(reg, next, v, g,
                 Deliver(next, Named(reg, {"viewer", "server"}), AllUpdateNews(reg, b))[v])
<1> DEFINE i == b[1]
           j == b[2]
           once == IF Len(b) >= 1 THEN Upsert(reg, i) ELSE reg
           first == IF Len(b) >= 1 THEN UpdateNews(reg, i) ELSE <<>>
           second == IF Len(b) >= 2 THEN UpdateNews(Upsert(reg, i), j) ELSE <<>>
<1>1. /\ Len(b) \in Nat
      /\ Len(b) >= 1 => i \in Info
      /\ Len(b) >= 2 => j \in Info
  BY WireInfoIsInfo, ConstantsAssumption DEF UpdateBatch
<1>2. /\ next = (IF Len(b) >= 2 THEN Upsert(once, j) ELSE once)
      /\ AllUpdateNews(reg, b) = first \o second
  BY DEF UpsertAll, AllUpdateNews
<1>3. once \in RegType /\ Keyed(once)
  BY <1>1, UpsertType
<1>4. SUFFICES ASSUME KindIs(reg, v, "viewer"), KindIs(next, v, "viewer"),
                      next[g] = Absent \/ KindIs(next, g, "game")
               PROVE  ShownAfter(SlotShown(reg, g), first \o second, g) = SlotShown(next, g)
  <2>1. SUFFICES ASSUME KindIs(reg, v, "viewer"), KindIs(next, v, "viewer")
                 PROVE  Deliver(next, Named(reg, {"viewer", "server"}),
                                AllUpdateNews(reg, b))[v] = first \o second
    BY <1>2 DEF Tracked
  <2>2. v \in Named(reg, {"viewer", "server"})
    BY <2>1, ViewerNamed
  <2>3. Reachable(next, v)
    BY <2>1 DEF Reachable, KindIs, HasInfo
  <2> QED
    BY <1>2, <2>2, <2>3 DEF Deliver
<1> DEFINE x == HostMsg("onHostUpdate", Upsert(reg, i)[i.dev])
           y == HostMsg("onHostUpdate", Upsert(Upsert(reg, i), j)[j.dev])
<1>5. ASSUME Len(b) >= 1
      PROVE  /\ first = IF i.kind = "game" THEN <<x>> ELSE <<>>
             /\ Reports(x, g) <=> i.dev = g
             /\ i.dev = g => Says(x) = {once[g].slot}
  <2>1. i \in Info /\ i.dev \in DeviceId
    BY <1>1, <1>5 DEF Info
  <2>2. Upsert(reg, i)[i.dev] \in Info /\ Upsert(reg, i)[i.dev].dev = i.dev
    BY <2>1, UpsertShown
  <2> QED
    BY <1>5, <2>2, ReportSays DEF HostMethod, UpdateNews
<1>6. ASSUME Len(b) >= 2
      PROVE  /\ second = IF j.kind = "game" THEN <<y>> ELSE <<>>
             /\ Reports(y, g) <=> j.dev = g
             /\ j.dev = g => Says(y) = {next[g].slot}
  <2>1. j \in Info /\ j.dev \in DeviceId /\ once = Upsert(reg, i) /\ next = Upsert(once, j)
    BY <1>1, <1>2, <1>6 DEF Info
  <2>2. Upsert(once, j)[j.dev] \in Info /\ Upsert(once, j)[j.dev].dev = j.dev
    BY <1>3, <2>1, UpsertShown
  <2> QED
    BY <1>6, <2>1, <2>2, ReportSays DEF HostMethod, UpdateNews
<1>7. ASSUME Len(b) >= 1
      PROVE  /\ i.dev # g => SlotShown(once, g) = SlotShown(reg, g)
             /\ i.dev = g => /\ once[g] # Absent
                             /\ \A k : KindIs(once, g, k) <=> i.kind = k
                             /\ i.kind = "game" => SlotShown(once, g) = {once[g].slot}
  <2>1. once = Upsert(reg, i) /\ i \in Info
    BY <1>1, <1>7
  <2> QED
    BY <2>1, UpsertShown, ConstantsAssumption
<1>8. ASSUME Len(b) >= 2
      PROVE  /\ j.dev # g => /\ SlotShown(next, g) = SlotShown(once, g)
                             /\ next[g] = once[g]
                             /\ KindIs(next, g, "game") <=> KindIs(once, g, "game")
             /\ j.dev = g => /\ next[g] # Absent
                             /\ KindIs(next, g, "game") <=> j.kind = "game"
                             /\ j.kind = "game" => SlotShown(next, g) = {next[g].slot}
  <2>1. next = Upsert(once, j) /\ j \in Info
    BY <1>1, <1>2, <1>8
  <2>2. j.dev # g => next[g] = once[g]
    BY <1>3, <2>1 DEF Upsert, RegType
  <2> QED
    BY <1>3, <2>1, <2>2, UpsertShown, ConstantsAssumption
<1>9. /\ Len(b) < 1 => once = reg /\ first = <<>>
      /\ Len(b) < 2 => next = once /\ second = <<>>
      /\ ~(Len(b) < 1) => Len(b) >= 1
      /\ ~(Len(b) < 2) => Len(b) >= 2 /\ Len(b) >= 1
  BY <1>1, <1>2
<1>10. <<>> \o <<>> = <<>> /\ <<x>> \o <<>> = <<x>> /\ <<>> \o <<y>> = <<y>>
  OBVIOUS
<1> HIDE DEF i, j, once, first, second, x, y
<1>11. CASE Len(b) < 2
  <2>1. second = <<>> /\ next = once
    BY <1>9, <1>11
  <2>2. CASE Len(b) < 1
    BY <1>9, <1>10, <2>1, <2>2, SilentShown, AnswersAboutNobody
  <2>3. CASE Len(b) >= 1
    <3>1. CASE i.kind = "game"
      <4>1. first \o second = <<x>>
        BY <1>5, <1>10, <2>1, <2>3, <3>1
      <4>2. CASE i.dev = g
        <5>1. ShownAfter(SlotShown(reg, g), first \o second, g) = Says(x)
          BY <1>5, <2>3, <4>1, <4>2, OneShown
        <5> QED
          BY <1>5, <1>7, <2>1, <2>3, <3>1, <4>2, <5>1
      <4>3. CASE i.dev # g
        <5>1. ShownAfter(SlotShown(reg, g), first \o second, g) = SlotShown(reg, g)
          BY <1>5, <2>3, <4>1, <4>3, OneShown
        <5> QED
          BY <1>7, <2>1, <2>3, <4>3, <5>1
      <4> QED
        BY <4>2, <4>3
    <3>2. CASE i.kind # "game"
      BY <1>4, <1>5, <1>7, <1>10, <2>1, <2>3, <3>2, SilentShown, AnswersAboutNobody
    <3> QED
      BY <3>1, <3>2
  <2> QED
    BY <1>9, <2>2, <2>3
<1>12. CASE Len(b) >= 2 /\ Len(b) >= 1
  <2>1. CASE i.kind = "game" /\ j.kind = "game"
    <3>0. PICK all : all = first \o second
      OBVIOUS
    <3>1. Len(all) = 2 /\ all[1] = x /\ all[2] = y
      <4>1. all = <<x>> \o <<y>>
        BY <1>5, <1>6, <1>12, <2>1, <3>0
      <4> QED
        BY <4>1, TwoList
    <3>2. CASE j.dev = g
      <4>1. ShownAfter(SlotShown(reg, g), all, g) = Says(y)
        <5>1. Reports(y, g)
          BY <1>6, <1>12, <3>2
        <5>2. Reports(all[2], g)
          BY <3>1, <5>1
        <5>3. ShownAfter(SlotShown(reg, g), all, g) = Says(all[2])
          BY <3>1, <5>2, TwoShown
        <5> QED
          BY <3>1, <5>3
      <4> QED
        BY <1>6, <1>8, <1>12, <2>1, <3>2, <3>0, <4>1
    <3>3. CASE j.dev # g /\ i.dev = g
      <4>1. ShownAfter(SlotShown(reg, g), all, g) = Says(x)
        <5>1. Reports(x, g) /\ ~Reports(y, g)
          BY <1>5, <1>6, <1>12, <3>3
        <5>2. Reports(all[1], g) /\ ~Reports(all[2], g)
          BY <3>1, <5>1
        <5>3. ShownAfter(SlotShown(reg, g), all, g) = Says(all[1])
          BY <3>1, <5>2, TwoShown
        <5> QED
          BY <3>1, <5>3
      <4> QED
        BY <1>5, <1>7, <1>8, <1>12, <2>1, <3>3, <3>0, <4>1
    <3>4. CASE j.dev # g /\ i.dev # g
      <4>1. ShownAfter(SlotShown(reg, g), all, g) = SlotShown(reg, g)
        BY <1>5, <1>6, <1>12, <3>1, <3>4, TwoShown
      <4> QED
        BY <1>7, <1>8, <1>12, <3>4, <3>0, <4>1
    <3> QED
      BY <3>2, <3>3, <3>4
  <2>2. CASE i.kind = "game" /\ j.kind # "game"
    <3>1. first \o second = <<x>>
      BY <1>5, <1>6, <1>10, <1>12, <2>2
    <3>2. j.dev # g
      BY <1>4, <1>8, <1>12, <2>2
    <3>3. CASE i.dev = g
      <4>1. ShownAfter(SlotShown(reg, g), first \o second, g) = Says(x)
        BY <1>5, <1>12, <3>1, <3>3, OneShown
      <4> QED
        BY <1>5, <1>7, <1>8, <1>12, <2>2, <3>2, <3>3, <4>1
    <3>4. CASE i.dev # g
      <4>1. ShownAfter(SlotShown(reg, g), first \o second, g) = SlotShown(reg, g)
        BY <1>5, <1>12, <3>1, <3>4, OneShown
      <4> QED
        BY <1>7, <1>8, <1>12, <3>2, <3>4, <4>1
    <3> QED
      BY <3>3, <3>4
  <2>3. CASE i.kind # "game" /\ j.kind = "game"
    <3>1. first \o second = <<y>>
      BY <1>5, <1>6, <1>10, <1>12, <2>3
    <3>2. CASE j.dev = g
      <4>1. ShownAfter(SlotShown(reg, g), first \o second, g) = Says(y)
        BY <1>6, <1>12, <3>1, <3>2, OneShown
      <4> QED
        BY <1>6, <1>8, <1>12, <2>3, <3>2, <4>1
    <3>3. CASE j.dev # g
      <4>1. ShownAfter(SlotShown(reg, g), first \o second, g) = SlotShown(reg, g)
        BY <1>6, <1>12, <3>1, <3>3, OneShown
      <4>2. i.dev # g
        BY <1>4, <1>7, <1>8, <1>12, <2>3, <3>3
      <4> QED
        BY <1>7, <1>8, <1>12, <3>3, <4>1, <4>2
    <3> QED
      BY <3>2, <3>3
  <2>4. CASE i.kind # "game" /\ j.kind # "game"
    <3>1. first \o second = <<>>
      BY <1>5, <1>6, <1>10, <1>12, <2>4
    <3> QED
      BY <1>4, <1>5, <1>6, <1>7, <1>8, <1>12, <2>4, <3>1, SilentShown, AnswersAboutNobody
  <2> QED
    BY <2>1, <2>2, <2>3, <2>4
<1> QED
  BY <1>9, <1>11, <1>12

(* The loss of a game is announced to all viewers that are left.           *)
LEMMA DropTracked ==
  ASSUME TypeInv, IsServer, NEW d \in DeviceId, DropDevice(d),
         NEW v \in DeviceId, v # EmptyId, NEW g \in DeviceId
  PROVE  Tracked(registry, registry', v, g, sent'[v])
<1> DEFINE reg == [registry EXCEPT ![d] = Absent]
           news == IF KindIs(registry, d, "game") /\ IsServer
                   THEN <<HostMsg("onHostDisconnected", registry[d])>> ELSE <<>>
<1>1. registry \in RegType /\ Keyed(registry)
  BY TypeInvParts DEF StoreOK
<1>2. registry' = reg /\ sent' = Deliver(reg, Viewers(reg), news)
  BY DEF DropDevice
<1>3. /\ reg \in RegType /\ Keyed(reg)
      /\ reg[d] = Absent /\ \A e \in DeviceId \ {d} : reg[e] = registry[e]
  BY <1>1 DEF RegType, Keyed, HasInfo
<1>4. SUFFICES ASSUME KindIs(reg, v, "viewer")
               PROVE  ShownAfter(SlotShown(registry, g), sent'[v], g) = SlotShown(reg, g)
  BY <1>2 DEF Tracked
<1>5. sent'[v] = news
  BY <1>2, <1>3, <1>4, ViewerNamed DEF Deliver
<1>6. SlotShown(reg, d) = {} /\ (g # d => SlotShown(reg, g) = SlotShown(registry, g))
  BY <1>3 DEF SlotShown, KindIs, HasInfo
<1> DEFINE x == HostMsg("onHostDisconnected", registry[d])
<1>7. CASE KindIs(registry, d, "game")
  <2>1. registry[d] \in Info /\ registry[d].dev = d
    BY <1>1, <1>7, HasInfoType DEF KindIs, Keyed
  <2>2. (Reports(x, g) <=> g = d) /\ Says(x) = {}
    BY <2>1, ReportSays DEF HostMethod
  <2>3. news = <<x>>
    BY <1>7
  <2> HIDE DEF news, x
  <2>4. CASE g = d
    <3>1. ShownAfter(SlotShown(registry, g), news, g) = Says(x)
      BY <2>2, <2>3, <2>4, OneShown
    <3> QED
      BY <1>5, <1>6, <2>2, <2>4, <3>1
  <2>5. CASE g # d
    <3>1. ShownAfter(SlotShown(registry, g), news, g) = SlotShown(registry, g)
      BY <2>2, <2>3, <2>5, OneShown
    <3> QED
      BY <1>5, <1>6, <2>5, <3>1
  <2> QED
    BY <2>4, <2>5
<1>8. CASE ~KindIs(registry, d, "game")
  <2>1. SlotShown(registry, d) = {} /\ news = <<>>
    BY <1>8 DEF SlotShown
  <2> QED
    BY <1>5, <1>6, <2>1, SilentShown, AnswersAboutNobody
<1> QED
  BY <1>7, <1>8

(* The filing of a sender before the rest of a call shows nothing.         *)
LEMMA TouchFirst ==
  ASSUME NEW reg \in RegType, NEW s \in DeviceId, NEW next, NEW v \in DeviceId,
         NEW g \in DeviceId, NEW msgs, Tracked(Touch(reg, s), next, v, g, msgs)
  PROVE  Tracked(reg, next, v, g, msgs)
<1>1. /\ SlotShown(Touch(reg, s), g) = SlotShown(reg, g)
      /\ KindIs(Touch(reg, s), v, "viewer") <=> KindIs(reg, v, "viewer")
  BY TouchShown
<1> QED
  BY <1>1 DEF Tracked

TrackStep ==
  \A v \in DeviceId, g \in DeviceId :
    IsServer /\ v # EmptyId => Tracked(registry, registry', v, g, sent'[v])

(* Every disciplined call tells the viewers what it changes.               *)
LEMMA TrackedStep ==
  ASSUME Cardinality(DeviceId) <= MaxSlot, SlotsInv, DisciplinedNext
  PROVE  TrackStep
<1>1. /\ TypeInv /\ Exact(registry, used_slots)
      /\ registry \in RegType /\ Keyed(registry)
  BY TypeInvParts DEF SlotsInv, StoreOK
<1>2. SUFFICES ASSUME NEW v \in DeviceId, NEW g \in DeviceId, IsServer, v # EmptyId
               PROVE  Tracked(registry, registry', v, g, sent'[v])
  BY DEF TrackStep
<1> DEFINE Goal == Tracked(registry, registry', v, g, sent'[v])
<1>3. ASSUME NEW call \in RegisterCall, RegistryRegister(call[1], call[2])
      PROVE  Goal
  <2> DEFINE s    == call[1]
             info == call[2]
             reg  == Touch(registry, s)
  <2>1. s \in DeviceId /\ info \in WireInfo
    BY ConstantsAssumption
  <2>2. CASE Admit(reg, info, s)
    <3>1. reg \in RegType /\ Keyed(reg) /\ Exact(reg, used_slots)
      BY <1>1, <2>1, TouchType, TouchSlot, ExactFrame
    <3>2. Tracked(reg, registry', v, g, sent'[v])
      BY <1>2, <2>1, <2>2, <3>1, AdmitTracked
    <3> QED
      BY <1>1, <2>1, <3>2, TouchFirst
  <2>3. CASE registry' = reg /\ sent' = Quiet
    BY <1>1, <2>1, <2>3, TouchTracked, AnswersAboutNobody
  <2> QED
    BY <1>3, <2>2, <2>3 DEF RegistryRegister
<1>4. ASSUME NEW d \in DeviceId, ApproveRegistration(d)
      PROVE  Goal
  <2>1. pending[d].info \in WireInfo /\ pending[d].target \in DeviceId
    BY <1>1, <1>4, TypeInvParts DEF PendingOK, PendingEntry, ApproveRegistration
  <2> QED
    BY <1>1, <1>2, <1>4, <2>1, AdmitTracked DEF ApproveRegistration
<1>5. ASSUME NEW s \in DeviceId, NEW b \in HonestBatch, RegistryUpdate(s, b)
      PROVE  Goal
  <2> DEFINE reg == Touch(registry, s)
  <2>1. reg \in RegType /\ Keyed(reg) /\ b \in UpdateBatch
    BY <1>1, TouchType DEF HonestBatch
  <2>2. /\ registry' = UpsertAll(reg, b)
        /\ sent' = Deliver(registry', Named(reg, {"viewer", "server"}), AllUpdateNews(reg, b))
    BY <1>2, <1>5 DEF RegistryUpdate
  <2>3. Tracked(reg, registry', v, g, sent'[v])
    BY <1>2, <2>1, <2>2, UpdateTracked
  <2> QED
    BY <1>1, <2>3, TouchFirst
<1>6. ASSUME NEW s \in DeviceId,
             \/ RegistryList(s) \/ ProcessPing(s) \/ ProcessOther(s) \/ RegisterDeviceWasm(s)
             \/ \E t \in DeviceId : RegistryRelay(s, t)
      PROVE  Goal
  <2>1. \A msgs, D : SaysNothingOf(msgs, g) /\ registry' = Touch(registry, s) =>
          /\ Tracked(registry, registry', v, g, Deliver(registry', D, msgs)[v])
          /\ Tracked(registry, registry', v, g, Quiet[v])
    BY <1>1, TouchTracked
  <2>2. registry' = Touch(registry, s) => Tracked(registry, registry', v, g, Quiet[v])
    BY <2>1, AnswersAboutNobody
  <2>3. CASE RegistryList(s)
    BY <2>1, <2>2, <2>3, AnswersAboutNobody DEF RegistryList
  <2>4. CASE ProcessPing(s)
    BY <2>1, <2>4, AnswersAboutNobody DEF ProcessPing
  <2>5. CASE ProcessOther(s) \/ RegisterDeviceWasm(s)
    BY <2>2, <2>5 DEF ProcessOther, RegisterDeviceWasm
  <2>6. ASSUME NEW t \in DeviceId, RegistryRelay(s, t)
        PROVE  Goal
    BY <2>1, <2>2, <2>6, AnswersAboutNobody DEF RegistryRelay
  <2> QED
    BY <1>6, <2>3, <2>4, <2>5, <2>6
<1>7. ASSUME NEW d \in DeviceId, DropDevice(d)
      PROVE  Goal
  BY <1>1, <1>2, <1>7, DropTracked
<1>8. ASSUME NEW d \in DeviceId, DenyRegistration(d)
      PROVE  Goal
  BY <1>1, <1>8, TouchTracked, AnswersAboutNobody DEF DenyRegistration
<1>9. ASSUME NEW d \in DeviceId, ~HasInfo(registry, d), RegisterDevice(d)
      PROVE  Goal
  <2>1. SlotShown(registry', g) = SlotShown(registry, g)
    BY <1>1, <1>9 DEF RegisterDevice, RegType, SlotShown, KindIs, HasInfo
  <2>2. SaysNothingOf(sent'[v], g)
    BY <1>9, AnswersAboutNobody DEF RegisterDevice, Quiet
  <2> QED
    BY <2>1, <2>2, SilentShown DEF Tracked
<1>10. ASSUME \/ \E kind \in LocalKind : InitLocalDevice(kind)
              \/ \E value \in BOOLEAN : SetAutoApprove(value)
       PROVE  Goal
  BY <1>1, <1>10, TouchTracked, AnswersAboutNobody DEF InitLocalDevice, SetAutoApprove
<1> QED
  BY <1>3, <1>4, <1>5, <1>6, <1>7, <1>8, <1>9, <1>10 DEF DisciplinedNext, Common

(* Under the same discipline, a registered viewer that keeps a host list   *)
(* from the messages it is sent has the games and slots of the registry    *)
(* after every call, as it had before (ViewersTrackHosts): admissions,     *)
(* updates and losses are announced to all viewers and as stored.          *)
THEOREM ViewersInformed ==
  ASSUME Cardinality(DeviceId) <= MaxSlot
  PROVE  DisciplinedSpec => ViewersTrackHosts
<1>1. SlotsInv /\ [DisciplinedNext]_vars => SlotsInv'
  BY SlotsInvStep
<1>2. SlotsInv /\ [DisciplinedNext]_vars => [TrackStep]_vars
  BY TrackedStep
<1>3. [TrackStep]_vars =>
        [\A v, g \in DeviceId :
           /\ IsServer /\ v # EmptyId
           /\ KindIs(registry, v, "viewer") /\ KindIs(registry', v, "viewer")
           /\ registry'[g] = Absent \/ KindIs(registry', g, "game")
           => ShownAfter(SlotShown(registry, g), sent'[v], g) = SlotShown(registry', g)]_vars
  BY DEF TrackStep, Tracked
<1> QED
  BY <1>1, <1>2, <1>3, SlotsInvInit, PTL DEF DisciplinedSpec, ViewersTrackHosts
=============================================================================
