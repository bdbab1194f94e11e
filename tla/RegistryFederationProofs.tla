---------------------- MODULE RegistryFederationProofs ----------------------
(***************************************************************************)
(* Proofs about RegistryFederation: once two servers registered with each  *)
(* other, the updates that travel between them never get fewer, for any    *)
(* slots, player counts and length of the behaviour.                       *)
(***************************************************************************)
EXTENDS RegistryFederation, FiniteSetTheorems, SequenceTheorems, TLAPS

(* The invariant.  An info names its device and is of its kind, in a       *)
(* record as in an update: so an update that arrives is announced again,   *)
(* and the record it changes is the game's, not that of a server.          *)
KindOf(d) == OwnInfo(d, 0, NoPlayers).kind
InfoOf(info, d) ==
  /\ DOMAIN info = {"dev", "kind", "slot", "players"}
  /\ info.dev = d /\ info.kind = KindOf(d)

Records(reg) ==
  /\ DOMAIN reg = DeviceId
  /\ \A d \in DeviceId : A!HasInfo(reg, d) => InfoOf(reg[d], d)

IsSequence(wire) == \E S : wire \in Seq(S)
Mail(wire) == IsSequence(wire) /\ \A n \in Updates(wire) : InfoOf(wire[n].info, g)

FederationInv ==
  /\ local_device = "server"
  /\ Records(registryA) /\ Records(registryB)
  /\ Mail(toA) /\ Mail(toB)

(* The kinds are those the devices register with.                          *)
LEMMA KindsApart ==
  /\ KindOf(g) = "game" /\ KindOf(sA) = "server" /\ KindOf(sB) = "server"
  /\ g # sA /\ g # sB /\ sA # EmptyId /\ sB # EmptyId
BY FederationAssumption DEF KindOf, OwnInfo, DeviceId

(* What a device registers with and reports is an info of it.              *)
LEMMA OwnInfoOf ==
  ASSUME NEW d, NEW s, NEW p
  PROVE  InfoOf(OwnInfo(d, s, p), d)
BY DEF InfoOf, OwnInfo, KindOf

-----------------------------------------------------------------------------
(* Counting the updates on a wire.                                         *)

(* A wire holds finitely many.                                             *)
LEMMA UpdatesFinite ==
  ASSUME NEW wire, IsSequence(wire)
  PROVE  IsFiniteSet(Updates(wire)) /\ Cardinality(Updates(wire)) \in Nat
<1>1. Len(wire) \in Nat /\ DOMAIN wire = 1 .. Len(wire)
  BY DEF IsSequence
<1>2. IsFiniteSet(1 .. Len(wire))
  BY <1>1, FS_Interval
<1>3. Updates(wire) \in SUBSET (1 .. Len(wire))
  BY <1>1 DEF Updates
<1> QED
  BY <1>2, <1>3, FS_Subset, FS_CardinalityType

(* Messages put behind others leave those where they are.                  *)
LEMMA MailGrows ==
  ASSUME NEW wire, NEW more, Mail(wire), Mail(more)
  PROVE  /\ Mail(wire \o more)
         /\ Cardinality(Updates(wire \o more)) >= Cardinality(Updates(wire))
<1> DEFINE both == wire \o more
<1>1. PICK S : wire \in Seq(S)
  BY DEF Mail, IsSequence
<1>2. PICK T : more \in Seq(T)
  BY DEF Mail, IsSequence
<1>3. wire \in Seq(S \cup T) /\ more \in Seq(S \cup T)
  BY <1>1, <1>2
<1>4. /\ both \in Seq(S \cup T)
      /\ Len(both) = Len(wire) + Len(more)
      /\ \A n \in 1 .. Len(wire) : both[n] = wire[n]
      /\ \A n \in 1 .. Len(both) : n > Len(wire) => both[n] = more[n - Len(wire)]
  BY <1>3
<1>5. /\ Len(wire) \in Nat /\ Len(more) \in Nat
      /\ DOMAIN wire = 1 .. Len(wire) /\ DOMAIN more = 1 .. Len(more)
      /\ DOMAIN both = 1 .. Len(both)
  BY <1>3, <1>4
<1> HIDE DEF both
<1>6. IsSequence(both)
  BY <1>4 DEF IsSequence
<1>7. ASSUME NEW n \in Updates(both)
      PROVE  InfoOf(both[n].info, g)
  <2>1. n \in 1 .. Len(both) /\ both[n].method = "onHostUpdate"
    BY <1>5 DEF Updates
  <2>2. CASE n <= Len(wire)
    <3>1. n \in DOMAIN wire /\ both[n] = wire[n]
      BY <2>1, <2>2, <1>4, <1>5
    <3>2. n \in Updates(wire)
      BY <2>1, <3>1 DEF Updates
    <3> QED
      BY <3>1, <3>2 DEF Mail
  <2>3. CASE n > Len(wire)
    <3>1. n - Len(wire) \in DOMAIN more /\ both[n] = more[n - Len(wire)]
      BY <2>1, <2>3, <1>4, <1>5
    <3>2. n - Len(wire) \in Updates(more)
      BY <2>1, <3>1 DEF Updates
    <3> QED
      BY <3>1, <3>2 DEF Mail
  <2> QED
    BY <2>1, <2>2, <2>3, <1>5
<1>8. Updates(wire) \in SUBSET Updates(both)
  BY <1>4, <1>5 DEF Updates
<1>9. /\ IsFiniteSet(Updates(both)) /\ Cardinality(Updates(both)) \in Nat
  BY <1>6, UpdatesFinite
<1>10. /\ Cardinality(Updates(wire)) \in Nat
       /\ Cardinality(Updates(wire)) <= Cardinality(Updates(both))
  BY <1>8, <1>9, FS_Subset, UpdatesFinite DEF Mail
<1> QED
  BY <1>6, <1>7, <1>9, <1>10 DEF Mail, both

(* An update put behind others is one more.                                *)
LEMMA OneMoreUpdate ==
  ASSUME NEW wire, Mail(wire), NEW m, m.method = "onHostUpdate"
  PROVE  Cardinality(Updates(wire \o <<m>>)) = Cardinality(Updates(wire)) + 1
<1> DEFINE both == wire \o <<m>>
<1>1. PICK S : wire \in Seq(S)
  BY DEF Mail, IsSequence
<1>2. wire \in Seq(S \cup {m}) /\ <<m>> \in Seq(S \cup {m})
  BY <1>1
<1>3. /\ Len(both) = Len(wire) + 1 /\ Len(wire) \in Nat
      /\ DOMAIN both = 1 .. (Len(wire) + 1) /\ DOMAIN wire = 1 .. Len(wire)
      /\ both[Len(wire) + 1] = m
      /\ \A n \in 1 .. Len(wire) : both[n] = wire[n]
  BY <1>2
<1> HIDE DEF both
<1>4. Updates(both) = Updates(wire) \cup {Len(wire) + 1}
  BY <1>3 DEF Updates
<1>5. Len(wire) + 1 \notin Updates(wire)
  BY <1>3 DEF Updates
<1> QED
  BY <1>4, <1>5, UpdatesFinite, FS_AddElement DEF Mail, both

(* What is read is gone: one update, if it was one.                        *)
LEMMA MailShrinks ==
  ASSUME NEW wire, Mail(wire), wire # <<>>
  PROVE  /\ Mail(Tail(wire))
         /\ Cardinality(Updates(Tail(wire))) \in Nat
         /\ Cardinality(Updates(wire)) =
              Cardinality(Updates(Tail(wire)))
              + (IF Head(wire).method = "onHostUpdate" THEN 1 ELSE 0)
         /\ Head(wire).method = "onHostUpdate" => InfoOf(Head(wire).info, g)
<1> DEFINE rest == Tail(wire)
<1>1. PICK S : wire \in Seq(S)
  BY DEF Mail, IsSequence
<1>2. /\ Len(wire) \in Nat /\ Len(wire) >= 1
      /\ rest \in Seq(S) /\ Len(rest) = Len(wire) - 1
      /\ DOMAIN rest = 1 .. (Len(wire) - 1) /\ DOMAIN wire = 1 .. Len(wire)
      /\ Head(wire) = wire[1]
      /\ \A n \in 1 .. (Len(wire) - 1) : rest[n] = wire[n + 1]
  BY <1>1
<1> HIDE DEF rest
<1>3. IsSequence(rest)
  BY <1>2 DEF IsSequence
<1>4. ASSUME NEW n \in Updates(rest)
      PROVE  InfoOf(rest[n].info, g)
  <2>1. n \in 1 .. (Len(wire) - 1) /\ rest[n] = wire[n + 1] /\ n + 1 \in DOMAIN wire
    BY <1>2 DEF Updates
  <2>2. n + 1 \in Updates(wire)
    BY <2>1 DEF Updates
  <2> QED
    BY <2>1, <2>2 DEF Mail
<1>5. Mail(rest)
  BY <1>3, <1>4 DEF Mail
<1> DEFINE Behind == Updates(wire) \ {1}
           shift  == [n \in Updates(rest) |-> n + 1]
<1>6. shift \in Bijection(Updates(rest), Behind)
  <2>1. Updates(rest) \in SUBSET Nat
    BY <1>2 DEF Updates
  <2>2. \A n \in Updates(rest) : shift[n] \in Behind
    BY <1>2, <2>1 DEF Updates
  <2>3. \A n \in Behind : n - 1 \in Updates(rest) /\ shift[n - 1] = n
    BY <1>2 DEF Updates
  <2>4. \A m, n \in Updates(rest) : shift[m] = shift[n] => m = n
    BY <2>1
  <2> QED
    BY <2>2, <2>3, <2>4 DEF Bijection, Injection, IsInjective, Surjection
<1>7. /\ IsFiniteSet(Updates(rest)) /\ Cardinality(Updates(rest)) \in Nat
      /\ IsFiniteSet(Updates(wire)) /\ Cardinality(Updates(wire)) \in Nat
  BY <1>3, UpdatesFinite DEF Mail
<1>8. Cardinality(Updates(rest)) = Cardinality(Behind)
  BY <1>6, <1>7, FS_Bijection DEF ExistsBijection
<1>9. Cardinality(Updates(wire)) = Cardinality(Behind) + (IF 1 \in Updates(wire) THEN 1 ELSE 0)
  <2>1. Cardinality(Behind) = IF 1 \in Updates(wire) THEN Cardinality(Updates(wire)) - 1
                              ELSE Cardinality(Updates(wire))
    BY <1>7, FS_RemoveElement
  <2> QED
    BY <2>1, <1>7
<1>10. 1 \in Updates(wire) <=> Head(wire).method = "onHostUpdate"
  BY <1>2 DEF Updates
<1> QED
  BY <1>2, <1>5, <1>7, <1>8, <1>9, <1>10 DEF Mail, rest

-----------------------------------------------------------------------------
(* What a call of an engine does to its records, and what it sends.        *)

(* Messages that are no updates of another device are mail.                *)
LEMMA MailOf ==
  ASSUME NEW m, m.method = "onHostUpdate" => InfoOf(m.info, g)
  PROVE  Mail(<<m>>)
<1>1. <<m>> \in Seq({m}) /\ DOMAIN <<m>> = {1} /\ <<m>>[1] = m
  OBVIOUS
<1> QED
  BY <1>1 DEF Mail, IsSequence, Updates

(* As is no message at all.                                                *)
LEMMA NoMail == Mail(<<>>) /\ Updates(<<>>) = {}
<1>1. <<>> \in Seq({}) /\ DOMAIN <<>> = {}
  OBVIOUS
<1> QED
  BY <1>1 DEF Mail, IsSequence, Updates

(* A packet of a device leaves the records as they are.                    *)
LEMMA TouchRecords ==
  ASSUME NEW reg, Records(reg), NEW s \in DeviceId
  PROVE  /\ Records(A!Touch(reg, s))
         /\ \A d \in DeviceId : A!HasInfo(reg, d) => A!Touch(reg, s)[d] = reg[d]
BY DEF A!Touch, A!HasInfo, Records

(* An info replaces what its own record says, and no other record.         *)
LEMMA UpsertRecords ==
  ASSUME NEW reg, Records(reg), NEW d \in DeviceId, NEW info, InfoOf(info, d)
  PROVE  /\ Records(A!Upsert(reg, info))
         /\ InfoOf(A!Upsert(reg, info)[d], d)
         /\ \A e \in DeviceId \ {d} : A!Upsert(reg, info)[e] = reg[e]
<1> DEFINE new == IF A!HasInfo(reg, d) THEN A!Merge(reg[d], info) ELSE info
<1>1. InfoOf(A!Merge(reg[d], info), d)
  BY DEF A!Merge, InfoOf
<1>2. InfoOf(new, d)
  BY <1>1
<1>3. A!Upsert(reg, info) = [reg EXCEPT ![d] = new]
  BY DEF A!Upsert, InfoOf
<1> HIDE DEF new
<1> QED
  BY <1>2, <1>3 DEF Records, A!HasInfo

(* Encoding an info leaves its device and kind.                            *)
LEMMA OnWireInfo ==
  ASSUME NEW info, NEW d, InfoOf(info, d)
  PROVE  InfoOf(A!OnWire(info), d)
BY DEF A!OnWire, InfoOf

(* An update of a game is announced once, to the servers too.              *)
LEMMA UpdateAnnounced ==
  ASSUME NEW reg, Records(reg), NEW info, InfoOf(info, g)
  PROVE  \E m : /\ A!AllUpdateNews(reg, <<info>>) = <<m>>
                /\ m.method = "onHostUpdate" /\ InfoOf(m.info, g)
<1> DEFINE m == A!HostMsg("onHostUpdate", A!Upsert(reg, info)[info.dev])
<1>1. info.kind = "game" /\ info.dev = g /\ g \in DeviceId
  BY KindsApart DEF InfoOf, DeviceId
<1>2. InfoOf(A!Upsert(reg, info)[g], g)
  BY <1>1, UpsertRecords
<1>3. m.method = "onHostUpdate" /\ m.info = A!OnWire(A!Upsert(reg, info)[g])
  BY <1>1 DEF A!HostMsg
<1>4. InfoOf(m.info, g)
  BY <1>2, <1>3, OnWireInfo
<1>5. A!UpdateNews(reg, info) = <<m>>
  BY <1>1 DEF A!UpdateNews
<1>6. A!AllUpdateNews(reg, <<info>>) = <<m>> \o <<>>
  BY <1>5 DEF A!AllUpdateNews
<1>7. <<m>> \o <<>> = <<m>>
  OBVIOUS
<1> QED
  BY <1>3, <1>4, <1>6, <1>7

(* What a call leaves: records that name their devices, and mail.          *)
Served(reg, out) == Records(reg) /\ \A d \in DeviceId : Mail(out[d])

(* Both engines are the same but for their state.                          *)
LEMMA SameEngine ==
  ASSUME NEW reg
  PROVE  /\ \A d : B!HasInfo(reg, d) = A!HasInfo(reg, d)
         /\ \A s : B!Touch(reg, s) = A!Touch(reg, s)
         /\ \A info : B!Upsert(reg, info) = A!Upsert(reg, info)
         /\ \A D, msgs : B!Deliver(reg, D, msgs) = A!Deliver(reg, D, msgs)
         /\ \A infos : /\ B!UpsertAll(reg, infos) = A!UpsertAll(reg, infos)
                       /\ B!AllUpdateNews(reg, infos) = A!AllUpdateNews(reg, infos)
         /\ \A kinds : B!Named(reg, kinds) = A!Named(reg, kinds)
         /\ \A m, i : B!HostMsg(m, i) = A!HostMsg(m, i)
         /\ B!OnRegister(TRUE) = A!OnRegister(TRUE)
<1>1. \A d : B!HasInfo(reg, d) = A!HasInfo(reg, d)
  BY DEF A!HasInfo, B!HasInfo
<1>2. \A old, info : B!Merge(old, info) = A!Merge(old, info)
  BY DEF A!Merge, B!Merge
<1>3. \A any, info : B!Upsert(any, info) = A!Upsert(any, info)
  BY <1>2 DEF A!Upsert, B!Upsert, A!HasInfo, B!HasInfo
<1>4. \A s : B!Touch(reg, s) = A!Touch(reg, s)
  BY DEF A!Touch, B!Touch
<1>5. \A D, msgs : B!Deliver(reg, D, msgs) = A!Deliver(reg, D, msgs)
  BY DEF A!Deliver, B!Deliver, A!Reachable, B!Reachable
<1>6. \A m, i : B!HostMsg(m, i) = A!HostMsg(m, i)
  BY DEF A!HostMsg, B!HostMsg, A!OnWire, B!OnWire
<1>7. \A any, info : B!UpdateNews(any, info) = A!UpdateNews(any, info)
  BY <1>3, <1>6 DEF A!UpdateNews, B!UpdateNews
<1>8. \A infos : /\ B!UpsertAll(reg, infos) = A!UpsertAll(reg, infos)
                 /\ B!AllUpdateNews(reg, infos) = A!AllUpdateNews(reg, infos)
  BY <1>3, <1>7 DEF A!UpsertAll, B!UpsertAll, A!AllUpdateNews, B!AllUpdateNews
<1>9. \A kinds : B!Named(reg, kinds) = A!Named(reg, kinds)
  BY <1>1 DEF A!Named, B!Named
<1>10. B!OnRegister(TRUE) = A!OnRegister(TRUE)
  BY DEF A!OnRegister, B!OnRegister
<1> QED
  BY <1>1, <1>3, <1>4, <1>5, <1>6, <1>8, <1>9, <1>10

(* Nothing is delivered but the messages given.                            *)
LEMMA Delivered ==
  ASSUME NEW reg, NEW D, NEW msgs, Mail(msgs)
  PROVE  \A d \in DeviceId : Mail(A!Deliver(reg, D, msgs)[d])
BY NoMail DEF A!Deliver

(* Registering a device stores its info, and tells of no update.           *)
LEMMA Admitted ==
  ASSUME NEW reg, Records(reg), NEW d \in DeviceId, NEW info, InfoOf(info, d),
         NEW slot, NEW D, NEW news,
         news \in {<<>>, <<A!HostMsg("onHostConnected", [info EXCEPT !.slot = slot])>>},
         NEW stored, stored = A!Upsert(reg, [info EXCEPT !.slot = slot])
  PROVE  Served(stored,
           [A!Deliver(stored, D, news) EXCEPT
             ![d] = A!Deliver(stored, {d}, <<A!OnRegister(TRUE)>> \o news)[d]])
<1>1. InfoOf([info EXCEPT !.slot = slot], d)
  BY DEF InfoOf
<1>2. Records(stored)
  BY <1>1, UpsertRecords
<1>3. Mail(news)
  <2>1. CASE news = <<>>
    BY <2>1, NoMail
  <2>2. CASE news = <<A!HostMsg("onHostConnected", [info EXCEPT !.slot = slot])>>
    <3>1. A!HostMsg("onHostConnected", [info EXCEPT !.slot = slot]).method # "onHostUpdate"
      BY DEF A!HostMsg
    <3> QED
      BY <2>2, <3>1, MailOf
  <2> QED
    BY <2>1, <2>2
<1>4. Mail(<<A!OnRegister(TRUE)>>)
  <2>1. A!OnRegister(TRUE).method # "onHostUpdate"
    BY DEF A!OnRegister
  <2> QED
    BY <2>1, MailOf
<1>5. Mail(<<A!OnRegister(TRUE)>> \o news)
  BY <1>3, <1>4, MailGrows
<1> DEFINE others == A!Deliver(stored, D, news)
           answer == A!Deliver(stored, {d}, <<A!OnRegister(TRUE)>> \o news)
<1>6. \A e \in DeviceId : Mail(others[e]) /\ Mail(answer[e])
  BY <1>3, <1>5, Delivered
<1>7. DOMAIN others = DeviceId
  BY DEF A!Deliver
<1> HIDE DEF others, answer
<1>8. \A e \in DeviceId : Mail([others EXCEPT ![d] = answer[d]][e])
  BY <1>6, <1>7
<1> QED
  BY <1>2, <1>8 DEF Served, others, answer

(* Every registered server gets one update for a game's.                   *)
Circulated(reg, out) ==
  \A d \in {sA, sB} :
    A!HasInfo(reg, d) => \E m : out[d] = <<m>> /\ m.method = "onHostUpdate"

(* An update is stored, and announced to the servers.                      *)
LEMMA Updated ==
  ASSUME NEW reg, Records(reg), NEW s \in DeviceId, NEW info, InfoOf(info, g),
         NEW stored, stored = A!UpsertAll(A!Touch(reg, s), <<info>>),
         NEW out, out = A!Deliver(stored, A!Named(A!Touch(reg, s), {"viewer", "server"}),
                                  A!AllUpdateNews(A!Touch(reg, s), <<info>>))
  PROVE  Served(stored, out) /\ Circulated(reg, out)
<1> DEFINE before == A!Touch(reg, s)
<1>1. /\ Records(before)
      /\ \A d \in DeviceId : A!HasInfo(reg, d) => before[d] = reg[d]
  BY TouchRecords
<1>2. PICK m : /\ A!AllUpdateNews(before, <<info>>) = <<m>>
               /\ m.method = "onHostUpdate" /\ InfoOf(m.info, g)
  BY <1>1, UpdateAnnounced
<1> HIDE DEF before
<1>3. stored = A!Upsert(before, info)
  BY DEF A!UpsertAll, before
<1>4. g \in DeviceId
  BY DEF DeviceId
<1>5. /\ Records(stored)
      /\ \A e \in DeviceId \ {g} : stored[e] = before[e]
  <2>1. /\ Records(A!Upsert(before, info))
        /\ \A e \in DeviceId \ {g} : A!Upsert(before, info)[e] = before[e]
    BY <1>1, <1>4, UpsertRecords
  <2> QED
    BY <1>3, <2>1, Zenon
<1>6. out = A!Deliver(stored, A!Named(before, {"viewer", "server"}), <<m>>)
  BY <1>2 DEF before
<1>7. Mail(<<m>>)
  BY <1>2, MailOf
<1>8. Served(stored, out)
  BY <1>5, <1>6, <1>7, Delivered DEF Served
<1>9. ASSUME NEW d \in {sA, sB}, A!HasInfo(reg, d)
      PROVE  out[d] = <<m>>
  <2>1. d \in DeviceId /\ d # g /\ d # EmptyId /\ KindOf(d) = "server"
    BY KindsApart DEF DeviceId
  <2>2. stored[d] = reg[d] /\ before[d] = reg[d]
    BY <1>1, <1>5, <1>9, <2>1
  <2>3. A!HasInfo(before, d) /\ InfoOf(before[d], d)
    BY <1>1, <1>9, <2>1, <2>2 DEF Records, A!HasInfo
  <2>4. d \in A!Named(before, {"viewer", "server"})
    BY <2>1, <2>3 DEF A!Named, InfoOf
  <2>5. A!Reachable(stored, d)
    BY <1>9, <2>1, <2>2 DEF A!Reachable, A!HasInfo
  <2> QED
    BY <1>6, <2>1, <2>4, <2>5 DEF A!Deliver
<1> QED
  BY <1>2, <1>8, <1>9 DEF Circulated

(* A device that is gone has no record, and its end is no update.          *)
LEMMA Dropped ==
  ASSUME NEW reg, Records(reg), NEW d \in DeviceId, NEW D, NEW news,
         NEW info, news \in {<<>>, <<A!HostMsg("onHostDisconnected", info)>>}
  PROVE  Served([reg EXCEPT ![d] = Absent], A!Deliver([reg EXCEPT ![d] = Absent], D, news))
<1>1. Records([reg EXCEPT ![d] = Absent])
  BY DEF Records, A!HasInfo
<1>2. Mail(news)
  <2>1. A!HostMsg("onHostDisconnected", info).method # "onHostUpdate"
    BY DEF A!HostMsg
  <2> QED
    BY <2>1, MailOf, NoMail
<1> QED
  BY <1>1, <1>2, Delivered DEF Served

-----------------------------------------------------------------------------
(* The calls of both engines.                                              *)

(* A device registers with A.                                              *)
LEMMA RegisterServedA ==
  ASSUME FederationInv, NEW d \in DeviceId, A!RegistryRegister(d, OwnInfo(d, 0, NoPlayers))
  PROVE  Served(registryA', sentA') /\ local_device' = local_device
<1> DEFINE info == OwnInfo(d, 0, NoPlayers)
           reg  == A!Touch(registryA, d)
<1>1. InfoOf(info, d) /\ info.dev = d
  BY OwnInfoOf DEF InfoOf
<1>2. Records(reg)
  BY TouchRecords DEF FederationInv
<1>3. A!IsServer
  BY DEF A!IsServer, FederationInv
<1> HIDE DEF info
<1>4. local_device' = local_device
  BY DEF A!RegistryRegister
<1>5. CASE A!Admit(reg, info, d)
  <2> DEFINE Free == A!Released(reg, used_slotsA, info.dev)
             Slot == IF info.kind = "game" THEN A!AllocateSlot(Free) ELSE 0
             News == IF info.kind = "game"
                     THEN <<A!HostMsg("onHostConnected", [info EXCEPT !.slot = Slot])>> ELSE <<>>
  <2>1. /\ registryA' = A!Upsert(reg, [info EXCEPT !.slot = Slot])
        /\ sentA' = [A!Deliver(registryA', A!Viewers(registryA'), News) EXCEPT
                       ![d] = A!Deliver(registryA', {d}, <<A!OnRegister(TRUE)>> \o News)[d]]
    BY <1>5 DEF A!Admit
  <2>2. News \in {<<>>, <<A!HostMsg("onHostConnected", [info EXCEPT !.slot = Slot])>>}
    OBVIOUS
  <2> HIDE DEF Slot, News
  <2> QED
    BY <1>1, <1>2, <1>4, <2>1, <2>2, Admitted
<1>6. CASE registryA' = reg /\ sentA' = A!Quiet
  BY <1>2, <1>4, <1>6, NoMail DEF Served, A!Quiet
<1> QED
  BY <1>3, <1>5, <1>6 DEF A!RegistryRegister, info

(* Or with B.                                                              *)
LEMMA RegisterServedB ==
  ASSUME FederationInv, NEW d \in DeviceId, B!RegistryRegister(d, OwnInfo(d, 0, NoPlayers))
  PROVE  Served(registryB', sentB') /\ local_device' = local_device
<1> DEFINE info == OwnInfo(d, 0, NoPlayers)
           reg  == B!Touch(registryB, d)
<1>1. InfoOf(info, d) /\ info.dev = d
  BY OwnInfoOf DEF InfoOf
<1>2. Records(reg)
  BY TouchRecords, SameEngine DEF FederationInv
<1>3. B!IsServer
  BY DEF B!IsServer, FederationInv
<1> HIDE DEF info
<1>4. local_device' = local_device
  BY DEF B!RegistryRegister
<1>5. CASE B!Admit(reg, info, d)
  <2> DEFINE Free == B!Released(reg, used_slotsB, info.dev)
             Slot == IF info.kind = "game" THEN B!AllocateSlot(Free) ELSE 0
             News == IF info.kind = "game"
                     THEN <<B!HostMsg("onHostConnected", [info EXCEPT !.slot = Slot])>> ELSE <<>>
  <2>1. /\ registryB' = B!Upsert(reg, [info EXCEPT !.slot = Slot])
        /\ sentB' = [B!Deliver(registryB', B!Viewers(registryB'), News) EXCEPT
                       ![d] = B!Deliver(registryB', {d}, <<B!OnRegister(TRUE)>> \o News)[d]]
    BY <1>5 DEF B!Admit
  <2>2. News \in {<<>>, <<B!HostMsg("onHostConnected", [info EXCEPT !.slot = Slot])>>}
    OBVIOUS
  <2> HIDE DEF Slot, News, reg
  <2>3. /\ registryB' = A!Upsert(reg, [info EXCEPT !.slot = Slot])
        /\ sentB' = [A!Deliver(registryB', B!Viewers(registryB'), News) EXCEPT
                       ![d] = A!Deliver(registryB', {d}, <<A!OnRegister(TRUE)>> \o News)[d]]
        /\ News \in {<<>>, <<A!HostMsg("onHostConnected", [info EXCEPT !.slot = Slot])>>}
    BY <2>1, <2>2, SameEngine
  <2> QED
    BY <1>1, <1>2, <1>4, <2>3, Admitted
<1>6. CASE registryB' = reg /\ sentB' = B!Quiet
  BY <1>2, <1>4, <1>6, NoMail DEF Served, B!Quiet
<1> QED
  BY <1>3, <1>5, <1>6 DEF B!RegistryRegister, info

(* A handles an update of the game.                                        *)
LEMMA UpdateServedA ==
  ASSUME FederationInv, NEW s \in DeviceId, NEW info, InfoOf(info, g),
         A!RegistryUpdate(s, <<info>>)
  PROVE  /\ Served(registryA', sentA') /\ local_device' = local_device
         /\ Circulated(registryA, sentA')
<1>1. A!IsServer
  BY DEF A!IsServer, FederationInv
<1>2. /\ registryA' = A!UpsertAll(A!Touch(registryA, s), <<info>>)
      /\ sentA' = A!Deliver(registryA', A!Named(A!Touch(registryA, s), {"viewer", "server"}),
                            A!AllUpdateNews(A!Touch(registryA, s), <<info>>))
      /\ local_device' = local_device
  BY <1>1 DEF A!RegistryUpdate
<1>3. Records(registryA)
  BY DEF FederationInv
<1> QED
  BY <1>2, <1>3, Updated

(* Or B.                                                                   *)
LEMMA UpdateServedB ==
  ASSUME FederationInv, NEW s \in DeviceId, NEW info, InfoOf(info, g),
         B!RegistryUpdate(s, <<info>>)
  PROVE  /\ Served(registryB', sentB') /\ local_device' = local_device
         /\ Circulated(registryB, sentB')
<1>1. B!IsServer
  BY DEF B!IsServer, FederationInv
<1>2. /\ registryB' = B!UpsertAll(B!Touch(registryB, s), <<info>>)
      /\ sentB' = B!Deliver(registryB', B!Named(B!Touch(registryB, s), {"viewer", "server"}),
                            B!AllUpdateNews(B!Touch(registryB, s), <<info>>))
      /\ local_device' = local_device
  BY <1>1 DEF B!RegistryUpdate
<1>3. /\ registryB' = A!UpsertAll(A!Touch(registryB, s), <<info>>)
      /\ sentB' = A!Deliver(registryB', A!Named(A!Touch(registryB, s), {"viewer", "server"}),
                            A!AllUpdateNews(A!Touch(registryB, s), <<info>>))
  <2> DEFINE reg == A!Touch(registryB, s)
  <2>1. B!Touch(registryB, s) = reg
    BY SameEngine
  <2> HIDE DEF reg
  <2>2. /\ registryB' = A!UpsertAll(reg, <<info>>)
        /\ sentB' = B!Deliver(registryB', A!Named(reg, {"viewer", "server"}),
                              A!AllUpdateNews(reg, <<info>>))
    BY <1>2, <2>1, SameEngine
  <2>3. sentB' = A!Deliver(registryB', A!Named(reg, {"viewer", "server"}),
                           A!AllUpdateNews(reg, <<info>>))
    BY <2>2, SameEngine
  <2> QED
    BY <2>2, <2>3 DEF reg
<1>4. Records(registryB)
  BY DEF FederationInv
<1> QED
  BY <1>2, <1>3, <1>4, Updated

(* What is no update changes no info and is not answered.                  *)
LEMMA OtherServed ==
  ASSUME FederationInv, NEW s \in DeviceId
  PROVE  /\ A!ProcessOther(s) => Served(registryA', sentA') /\ local_device' = local_device
         /\ B!ProcessOther(s) => Served(registryB', sentB') /\ local_device' = local_device
<1>1. Records(A!Touch(registryA, s)) /\ Records(B!Touch(registryB, s))
  BY TouchRecords, SameEngine DEF FederationInv
<1> QED
  BY <1>1, NoMail DEF A!ProcessOther, B!ProcessOther, A!Quiet, B!Quiet, Served

(* The game's connection ends.                                             *)
LEMMA DropServed ==
  ASSUME FederationInv, A!DropDevice(g)
  PROVE  Served(registryA', sentA') /\ local_device' = local_device
<1> DEFINE reg  == [registryA EXCEPT ![g] = Absent]
           news == IF A!KindIs(registryA, g, "game") /\ A!IsServer
                   THEN <<A!HostMsg("onHostDisconnected", registryA[g])>> ELSE <<>>
<1>1. /\ registryA' = reg /\ sentA' = A!Deliver(reg, A!Viewers(reg), news)
      /\ local_device' = local_device
  BY DEF A!DropDevice
<1>2. news \in {<<>>, <<A!HostMsg("onHostDisconnected", registryA[g])>>}
  OBVIOUS
<1>3. Records(registryA) /\ g \in DeviceId
  BY DEF FederationInv, DeviceId
<1> HIDE DEF news
<1>4. Served(reg, A!Deliver(reg, A!Viewers(reg), news))
  BY <1>2, <1>3, Dropped
<1> HIDE DEF reg
<1> QED
  BY <1>1, <1>4

-----------------------------------------------------------------------------
(* The steps of the federation.                                            *)

(* At first there are no records and no mail.                              *)
LEMMA InvInit ==
  ASSUME FederationInit
  PROVE  FederationInv
BY NoMail DEF FederationInit, FederationInv, Records, A!HasInfo

(* What A sends to B in a call joins the wire.                             *)
LEMMA SentByA ==
  ASSUME FederationInv, Served(registryA', sentA'), local_device' = local_device, FromA,
         Mail(toA')
  PROVE  /\ FederationInv'
         /\ Cardinality(Updates(toB')) >= Cardinality(Updates(toB))
<1>1. Mail(sentA'[sB]) /\ Mail(toB) /\ toB' = toB \o sentA'[sB]
  BY DEF Served, FederationInv, FromA, DeviceId
<1>2. Records(registryB)
  BY DEF FederationInv
<1>3. Records(registryB')
  BY <1>2 DEF FromA, engineB
<1> QED
  BY <1>1, <1>3, MailGrows DEF FederationInv, Served

(* What B sends to A.                                                      *)
LEMMA SentByB ==
  ASSUME FederationInv, Served(registryB', sentB'), local_device' = local_device, FromB,
         Mail(toB')
  PROVE  /\ FederationInv'
         /\ Cardinality(Updates(toA')) >= Cardinality(Updates(toA))
<1>1. Mail(sentB'[sA]) /\ Mail(toA) /\ toA' = toA \o sentB'[sA]
  BY DEF Served, FederationInv, FromB, DeviceId
<1>2. Records(registryA)
  BY DEF FederationInv
<1>3. Records(registryA')
  BY <1>2 DEF FromB, engineA
<1> QED
  BY <1>1, <1>3, MailGrows DEF FederationInv, Served

(* A call in which A reads nothing from B.                                 *)
LEMMA CallOfA ==
  ASSUME FederationInv, Served(registryA', sentA'), local_device' = local_device, FromA,
         toA' = toA
  PROVE  FederationInv' /\ UnderWay' >= UnderWay
<1>1. Mail(toA')
  BY DEF FederationInv
<1>2. /\ FederationInv'
      /\ Cardinality(Updates(toB')) >= Cardinality(Updates(toB))
  BY <1>1, SentByA
<1>3. /\ Cardinality(Updates(toA)) \in Nat /\ Cardinality(Updates(toB)) \in Nat
      /\ Cardinality(Updates(toB')) \in Nat
  BY <1>2, UpdatesFinite DEF FederationInv, Mail
<1> QED
  BY <1>2, <1>3 DEF UnderWay

(* A call in which B reads nothing from A.                                 *)
LEMMA CallOfB ==
  ASSUME FederationInv, Served(registryB', sentB'), local_device' = local_device, FromB,
         toB' = toB
  PROVE  FederationInv' /\ UnderWay' >= UnderWay
<1>1. Mail(toB')
  BY DEF FederationInv
<1>2. /\ FederationInv'
      /\ Cardinality(Updates(toA')) >= Cardinality(Updates(toA))
  BY <1>1, SentByB
<1>3. /\ Cardinality(Updates(toA)) \in Nat /\ Cardinality(Updates(toB)) \in Nat
      /\ Cardinality(Updates(toA')) \in Nat
  BY <1>2, UpdatesFinite DEF FederationInv, Mail
<1> QED
  BY <1>2, <1>3 DEF UnderWay

(* A reads a message of B: if it is an update, and B is registered, it     *)
(* sends one back.                                                         *)
LEMMA ReadByA ==
  ASSUME FederationInv, ReceiveAtA
  PROVE  FederationInv' /\ (Mutual => UnderWay' >= UnderWay)
<1> DEFINE msg == Head(toA)
<1>1. /\ Mail(toA) /\ toA # <<>> /\ toA' = Tail(toA) /\ FromA
      /\ sA \in DeviceId /\ sB \in DeviceId
  BY DEF ReceiveAtA, FederationInv, DeviceId
<1>2. /\ Mail(toA')
      /\ Cardinality(Updates(toA')) \in Nat
      /\ Cardinality(Updates(toA)) =
           Cardinality(Updates(toA')) + (IF msg.method = "onHostUpdate" THEN 1 ELSE 0)
      /\ msg.method = "onHostUpdate" => InfoOf(msg.info, g)
  BY <1>1, MailShrinks
<1>3. Cardinality(Updates(toB)) \in Nat
  BY UpdatesFinite DEF FederationInv, Mail
<1>4. CASE msg.method = "onHostUpdate"
  <2>1. A!RegistryUpdate(sB, <<msg.info>>)
    BY <1>4 DEF ReceiveAtA
  <2> HIDE DEF msg
  <2>2. /\ Served(registryA', sentA') /\ local_device' = local_device
        /\ Circulated(registryA, sentA')
    BY <1>1, <1>2, <1>4, <2>1, UpdateServedA
  <2>3. FederationInv'
    BY <1>1, <1>2, <2>2, SentByA
  <2>4. ASSUME Mutual
        PROVE  Cardinality(Updates(toB')) = Cardinality(Updates(toB)) + 1
    <3>1. A!HasInfo(registryA, sB)
      BY <2>4 DEF Mutual, Joined
    <3>2. PICK m : sentA'[sB] = <<m>> /\ m.method = "onHostUpdate"
      BY <2>2, <3>1 DEF Circulated
    <3>3. toB' = toB \o <<m>> /\ Mail(toB)
      BY <1>1, <3>2 DEF FromA, FederationInv
    <3> QED
      BY <3>2, <3>3, OneMoreUpdate
  <2> QED
    BY <1>2, <1>3, <1>4, <2>3, <2>4 DEF UnderWay
<1>5. CASE msg.method # "onHostUpdate"
  <2>1. A!ProcessOther(sB)
    BY <1>5 DEF ReceiveAtA
  <2> HIDE DEF msg
  <2>2. Served(registryA', sentA') /\ local_device' = local_device
    BY <1>1, <2>1, OtherServed
  <2>3. /\ FederationInv'
        /\ Cardinality(Updates(toB')) >= Cardinality(Updates(toB))
    BY <1>1, <1>2, <2>2, SentByA
  <2>4. Cardinality(Updates(toB')) \in Nat
    BY <2>3, UpdatesFinite DEF FederationInv, Mail
  <2> QED
    BY <1>2, <1>3, <1>5, <2>3, <2>4 DEF UnderWay
<1> QED
  BY <1>4, <1>5

(* B reads a message of A.                                                 *)
LEMMA ReadByB ==
  ASSUME FederationInv, ReceiveAtB
  PROVE  FederationInv' /\ (Mutual => UnderWay' >= UnderWay)
<1> DEFINE msg == Head(toB)
<1>1. /\ Mail(toB) /\ toB # <<>> /\ toB' = Tail(toB) /\ FromB
      /\ sA \in DeviceId /\ sB \in DeviceId
  BY DEF ReceiveAtB, FederationInv, DeviceId
<1>2. /\ Mail(toB')
      /\ Cardinality(Updates(toB')) \in Nat
      /\ Cardinality(Updates(toB)) =
           Cardinality(Updates(toB')) + (IF msg.method = "onHostUpdate" THEN 1 ELSE 0)
      /\ msg.method = "onHostUpdate" => InfoOf(msg.info, g)
  BY <1>1, MailShrinks
<1>3. Cardinality(Updates(toA)) \in Nat
  BY UpdatesFinite DEF FederationInv, Mail
<1>4. CASE msg.method = "onHostUpdate"
  <2>1. B!RegistryUpdate(sA, <<msg.info>>)
    BY <1>4 DEF ReceiveAtB
  <2> HIDE DEF msg
  <2>2. /\ Served(registryB', sentB') /\ local_device' = local_device
        /\ Circulated(registryB, sentB')
    BY <1>1, <1>2, <1>4, <2>1, UpdateServedB
  <2>3. FederationInv'
    BY <1>1, <1>2, <2>2, SentByB
  <2>4. ASSUME Mutual
        PROVE  Cardinality(Updates(toA')) = Cardinality(Updates(toA)) + 1
    <3>1. A!HasInfo(registryB, sA)
      BY <2>4, SameEngine DEF Mutual
    <3>2. PICK m : sentB'[sA] = <<m>> /\ m.method = "onHostUpdate"
      BY <2>2, <3>1 DEF Circulated
    <3>3. toA' = toA \o <<m>> /\ Mail(toA)
      BY <1>1, <3>2 DEF FromB, FederationInv
    <3> QED
      BY <3>2, <3>3, OneMoreUpdate
  <2> QED
    BY <1>2, <1>3, <1>4, <2>3, <2>4 DEF UnderWay
<1>5. CASE msg.method # "onHostUpdate"
  <2>1. B!ProcessOther(sA)
    BY <1>5 DEF ReceiveAtB
  <2> HIDE DEF msg
  <2>2. Served(registryB', sentB') /\ local_device' = local_device
    BY <1>1, <2>1, OtherServed
  <2>3. /\ FederationInv'
        /\ Cardinality(Updates(toA')) >= Cardinality(Updates(toA))
    BY <1>1, <1>2, <2>2, SentByB
  <2>4. Cardinality(Updates(toA')) \in Nat
    BY <2>3, UpdatesFinite DEF FederationInv, Mail
  <2> QED
    BY <1>2, <1>3, <1>5, <2>3, <2>4 DEF UnderWay
<1> QED
  BY <1>4, <1>5

(* Every step keeps the invariant, and between servers that know each      *)
(* other no step leaves fewer updates.                                     *)
LEMMA InvNext ==
  ASSUME FederationInv, [FederationNext]_federation
  PROVE  FederationInv' /\ (Mutual => UnderWay' >= UnderWay)
<1>1. ASSUME NEW d \in {g, vA, sB}, RegisterAtA(d)
      PROVE  FederationInv' /\ UnderWay' >= UnderWay
  <2>1. /\ d \in DeviceId /\ A!RegistryRegister(d, OwnInfo(d, 0, NoPlayers))
        /\ FromA /\ toA' = toA
    BY <1>1 DEF RegisterAtA, DeviceId
  <2> QED
    BY <2>1, RegisterServedA, CallOfA
<1>2. ASSUME NEW d \in {vB, sA}, RegisterAtB(d)
      PROVE  FederationInv' /\ UnderWay' >= UnderWay
  <2>1. /\ d \in DeviceId /\ B!RegistryRegister(d, OwnInfo(d, 0, NoPlayers))
        /\ FromB /\ toB' = toB
    BY <1>2 DEF RegisterAtB, DeviceId
  <2> QED
    BY <2>1, RegisterServedB, CallOfB
<1>3. ASSUME NEW p \in Counts, Report(p)
      PROVE  FederationInv' /\ UnderWay' >= UnderWay
  <2> DEFINE info == OwnInfo(g, registryA[g].slot, p)
  <2>1. /\ g \in DeviceId /\ A!RegistryUpdate(g, <<info>>)
        /\ FromA /\ toA' = toA /\ InfoOf(info, g)
    BY <1>3, OwnInfoOf DEF Report, DeviceId
  <2> HIDE DEF info
  <2> QED
    BY <2>1, UpdateServedA, CallOfA
<1>4. ASSUME Leave
      PROVE  FederationInv' /\ UnderWay' >= UnderWay
  <2>1. A!DropDevice(g) /\ FromA /\ toA' = toA
    BY <1>4 DEF Leave
  <2> QED
    BY <2>1, DropServed, CallOfA
<1>5. ASSUME UNCHANGED federation
      PROVE  FederationInv' /\ UnderWay' >= UnderWay
  <2>1. /\ local_device' = local_device /\ registryA' = registryA /\ registryB' = registryB
        /\ toA' = toA /\ toB' = toB
    BY <1>5 DEF federation, engineA, engineB, settings
  <2>2. /\ Cardinality(Updates(toA)) \in Nat /\ Cardinality(Updates(toB)) \in Nat
    BY UpdatesFinite DEF FederationInv, Mail
  <2> QED
    BY <2>1, <2>2 DEF FederationInv, UnderWay
<1> QED
  BY <1>1, <1>2, <1>3, <1>4, <1>5, ReadByA, ReadByB DEF FederationNext

(* Once each server registered with the other, the updates under way       *)
(* between them never get fewer, whatever is registered, reported, dropped *)
(* and read, and in whatever order: each update that a server reads is of  *)
(* the game, whose record alone it changes, and the server it came from is *)
(* in the registry and gets it back (rpc_registry_update).                 *)
THEOREM UpdatesGoRound == FederationSpec => UpdatesCirculate
<1>1. FederationInit => FederationInv
  BY InvInit
<1>2. FederationInv /\ [FederationNext]_federation => FederationInv'
  BY InvNext
<1>3. FederationInv /\ [FederationNext]_federation
        => [Mutual => UnderWay' >= UnderWay]_federation
  BY InvNext
<1> QED
  BY <1>1, <1>2, <1>3, PTL DEF FederationSpec, UpdatesCirculate
=============================================================================
