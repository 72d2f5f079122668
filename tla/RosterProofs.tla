---------------------------- MODULE RosterProofs ----------------------------
(***************************************************************************)
(* Proofs about the two lists of people a window keeps: the rosters of     *)
(* groups and channels (Rooms), for any users and any number of acts, and  *)
(* the roster of peers (Presence), for any peers, timeouts and any size of *)
(* the probe pool.  The two share nothing but this module.                 *)
(***************************************************************************)
EXTENDS Rooms, Presence, SequenceTheorems, TLAPS

-----------------------------------------------------------------------------
(* What the operators return.                                              *)

\* _group_meta and _channel_meta always name an admin, and only members.
LEMMA MetaFacts ==
  ASSUME NEW n \in Nodes, NEW r \in Roster
  PROVE  /\ Meta(n, r) \in Roster
         /\ n \in Meta(n, r).members /\ r.members \subseteq Meta(n, r).members
         /\ Meta(n, r).admins # {}
         /\ Meta(n, r).admins \subseteq Meta(n, r).members
BY DEF Meta, Roster

\* _ensure_group_admin keeps the admins there are, or picks a member.
LEMMA EnsuredFacts ==
  ASSUME NEW members, NEW admins, NEW a \in Ensured(members, admins)
  PROVE  /\ a \subseteq members
         /\ members # {} => a # {}
         /\ admins \cap members # {} => a = admins \cap members
BY DEF Ensured

\* What goes out is one roster payload for every member but the sender.
LEMMA FanFacts ==
  ASSUME NEW n \in Nodes, NEW says \in Roster, acts' \in 0..MaxActs
  PROVE  /\ Fan(n, says) \subseteq Payload
         /\ \A m \in Fan(n, says) :
              /\ m.type = "roster" /\ m.from = n /\ m.to # n /\ m.to \in says.members
              /\ m.says = says /\ m.act = acts'
         /\ says.members \subseteq {n} \/ Fan(n, says) # {}
<1>1. Fan(n, says) \subseteq Payload
  BY DEF Fan, Payload, Roster
<1>2. \A m \in Fan(n, says) :
        /\ m.type = "roster" /\ m.from = n /\ m.to # n /\ m.to \in says.members
        /\ m.says = says /\ m.act = acts'
  BY DEF Fan
<1>3. ASSUME NEW p \in says.members \ {n} PROVE Fan(n, says) # {}
  BY DEF Fan
<1>. QED  BY <1>1, <1>2, <1>3

LEMMA KickFacts ==
  ASSUME NEW n \in Nodes, NEW p \in Nodes, acts' \in 0..MaxActs
  PROVE  /\ Kick(n, p) \in Payload
         /\ Kick(n, p).type = "kick" /\ Kick(n, p).from = n /\ Kick(n, p).to = p
         /\ Kick(n, p).says = Nobody /\ Kick(n, p).act = acts'
BY DEF Kick, Payload, Roster, Nobody

-----------------------------------------------------------------------------
(* Types.                                                                  *)

Addressed(S) ==
  S \subseteq Payload
    /\ \A m \in S : m.from # m.to /\ (m.type = "roster" => m.to \in m.says.members)

LEMMA FanAddressed ==
  ASSUME NEW n \in Nodes, NEW says \in Roster, acts' \in 0..MaxActs
  PROVE  Addressed(Fan(n, says))
BY FanFacts DEF Addressed

LEMMA ActType ==
  ASSUME RoomsTypeOK, Act
  PROVE  acts' \in 0..MaxActs /\ acts' = acts + 1
BY RoomsAssumption DEF RoomsTypeOK, Act

\* A roster is stored and sent: what Change leaves behind is well typed.
LEMMA ChangeType ==
  ASSUME RoomsTypeOK, NEW n \in Nodes, NEW r \in Roster, Act, Change(n, r)
  PROVE  /\ kind' \in Kinds /\ holders' \subseteq Nodes
         /\ roster' \in [Nodes -> Roster] /\ dialog' \in [Nodes -> SUBSET Nodes]
         /\ Addressed(net') /\ acts' \in 0..MaxActs
<1>. USE DEF RoomsTypeOK
<1>1. acts' \in 0..MaxActs
  BY ActType
<1>2. Meta(n, r) \in Roster
  BY MetaFacts
<1>3. Addressed(net')
  BY <1>1, <1>2, FanAddressed DEF Change, Addressed
<1>4. dialog' \in [Nodes -> SUBSET Nodes]
  BY <1>2 DEF Change, Roster
<1>. QED  BY <1>1, <1>3, <1>4 DEF Change

\* Each step of a user or a window keeps the stored and sent rosters well typed.
LEMMA StepType ==
  ASSUME RoomsTypeOK, RStep
  PROVE  /\ kind' \in Kinds /\ holders' \subseteq Nodes
         /\ roster' \in [Nodes -> Roster] /\ dialog' \in [Nodes -> SUBSET Nodes]
         /\ Addressed(net') /\ acts' \in 0..MaxActs
<1>. DEFINE T == /\ kind' \in Kinds /\ holders' \subseteq Nodes
                 /\ roster' \in [Nodes -> Roster] /\ dialog' \in [Nodes -> SUBSET Nodes]
                 /\ Addressed(net') /\ acts' \in 0..MaxActs
<1>. USE DEF RoomsTypeOK
<1>0. Nobody \in Roster /\ Addressed(net)
  BY DEF Nobody, Roster, Addressed
<1>1. ASSUME NEW n \in Nodes, NEW S \in SUBSET (Nodes \ {n}), Create(n, S) PROVE T
  <2>1. [members |-> S, admins |-> {n}] \in Roster
    BY DEF Roster
  <2>2. roster' \in [Nodes -> Roster] /\ roster'[n] \in Roster
    BY <1>1, <2>1 DEF Create
  <2>3. acts' \in 0..MaxActs /\ Meta(n, roster'[n]) \in Roster
    BY <1>1, <2>2, MetaFacts DEF Create
  <2>4. Addressed(net')
    BY <1>1, <2>3, FanAddressed DEF Create
  <2>. QED  BY <1>1, <2>2, <2>3, <2>4 DEF Create
<1>2. ASSUME NEW n \in Nodes, Post(n) PROVE T
  BY <1>2, ChangeType DEF Post
<1>3. ASSUME NEW n \in Nodes, Manage(n) PROVE T
  <2>1. Meta(n, roster[n]).members \subseteq Nodes
    BY MetaFacts DEF Roster
  <2>. QED  BY <1>0, <1>3, <2>1 DEF Manage
<1>4. ASSUME NEW n \in Nodes, CloseDialog(n) PROVE T
  BY <1>0, <1>4 DEF CloseDialog
<1>5. ASSUME NEW n \in Nodes, Leave(n) PROVE T
  <2>1. acts' \in 0..MaxActs
    BY <1>5, ActType DEF Leave
  <2>2. Addressed(net')
    <3>1. CASE DeleteGroup(n)
      <4>1. Meta(n, roster[n]) \in Roster
        BY MetaFacts
      <4>2. PICK a \in Ensured(Meta(n, roster[n]).members \ {n}, Meta(n, roster[n]).admins \ {n}) :
              net' = net \cup Fan(n, [members |-> Meta(n, roster[n]).members \ {n}, admins |-> a])
        BY <3>1 DEF DeleteGroup
      <4>3. [members |-> Meta(n, roster[n]).members \ {n}, admins |-> a] \in Roster
        BY <4>1, EnsuredFacts DEF Roster
      <4>. QED  BY <1>0, <2>1, <4>2, <4>3, FanAddressed DEF Addressed
    <3>. QED  BY <1>0, <1>5, <3>1 DEF Leave, DeleteChannel
  <2>. QED  BY <1>0, <1>5, <2>1, <2>2 DEF Leave, Forget
<1>6. ASSUME NEW n \in Nodes, Quit(n) PROVE T
  <2>1. Addressed(net')
    BY <1>0, <1>6 DEF Quit, Addressed
  <2>. QED  BY <1>6, <2>1, ActType DEF Quit
<1>7. ASSUME NEW n \in Nodes, NEW p \in Nodes, AddMember(n, p) PROVE T
  <2>1. [roster[n] EXCEPT !.members = @ \cup {p}] \in Roster
    BY DEF Roster
  <2>. QED  BY <1>7, <2>1, ChangeType DEF AddMember
<1>8. ASSUME NEW n \in Nodes, NEW p \in Nodes, RemoveMember(n, p) PROVE T
  <2>. DEFINE r == [members |-> roster[n].members \ {p}, admins |-> roster[n].admins \ {p}]
  <2>1. acts' \in 0..MaxActs /\ p # n
    BY <1>8, ActType DEF RemoveMember
  <2>2. r \in Roster
    BY DEF Roster
  <2>3. roster' \in [Nodes -> Roster] /\ Addressed(net')
    <3>1. CASE GroupRemoves(n, p, r)
      <4>1. PICK a \in Ensured(r.members, r.admins) :
              /\ roster' = [roster EXCEPT ![n] = [r EXCEPT !.admins = a]]
              /\ net' = net \cup Fan(n, Meta(n, roster'[n])) \cup {Kick(n, p)}
        BY <3>1 DEF GroupRemoves
      <4>2. [r EXCEPT !.admins = a] \in Roster
        BY <2>2, EnsuredFacts DEF Roster
      <4>3. roster' \in [Nodes -> Roster] /\ Meta(n, roster'[n]) \in Roster
        BY <4>1, <4>2, MetaFacts
      <4>4. Kick(n, p) \in Payload /\ Kick(n, p).type = "kick"
              /\ Kick(n, p).from # Kick(n, p).to
        BY <2>1, KickFacts
      <4>. QED  BY <1>0, <2>1, <4>1, <4>3, <4>4, FanAddressed DEF Addressed
    <3>2. CASE ChannelRemoves(n, r)
      <4>1. roster' \in [Nodes -> Roster] /\ Meta(n, r) \in Roster
        BY <2>2, <3>2, MetaFacts DEF ChannelRemoves
      <4>. QED  BY <1>0, <2>1, <3>2, <4>1, FanAddressed DEF Addressed, ChannelRemoves
    <3>. QED  BY <1>8, <3>1, <3>2 DEF RemoveMember
  <2>4. Meta(n, roster'[n]).members \subseteq Nodes
    BY <2>3, MetaFacts DEF Roster
  <2>. QED  BY <1>8, <2>1, <2>3, <2>4 DEF RemoveMember
<1>9. ASSUME NEW n \in Nodes, NEW p \in Nodes, NEW make \in BOOLEAN, SetAdmin(n, p, make) PROVE T
  <2>. DEFINE adm == IF make THEN roster[n].admins \cup {p} ELSE roster[n].admins \ {p}
  <2>1. \A a \in SUBSET Nodes : [roster[n] EXCEPT !.admins = a] \in Roster
    BY DEF Roster
  <2>2. PICK a \in SUBSET Nodes : Change(n, [roster[n] EXCEPT !.admins = a])
    <3>1. adm \subseteq Nodes /\ roster[n].members \subseteq Nodes
      BY DEF Roster
    <3>2. CASE GroupSetAdmin(n, adm)
      <4>1. PICK a \in Ensured(roster[n].members, adm) :
              Change(n, [roster[n] EXCEPT !.admins = a])
        BY <3>2 DEF GroupSetAdmin
      <4>2. a \subseteq roster[n].members
        BY EnsuredFacts
      <4>. QED  BY <3>1, <4>1, <4>2
    <3>3. CASE ChannelSetAdmin(n, adm)
      BY <3>1, <3>3 DEF ChannelSetAdmin
    <3>. QED  BY <1>9, <3>2, <3>3 DEF SetAdmin
  <2>. QED  BY <1>9, <2>1, <2>2, ChangeType DEF SetAdmin
<1>10. ASSUME NEW m \in net, Handle(m) PROVE T
  <2>1. m \in Payload /\ m.to \in Nodes /\ m.says \in Roster
    BY DEF Payload
  <2>2. Addressed(net') /\ UNCHANGED <<kind, dialog, acts>>
    BY <1>0, <1>10 DEF Handle, Addressed
  <2>3. holders' \subseteq Nodes /\ roster' \in [Nodes -> Roster]
    <3>1. CASE Join(m)
      BY <2>1, <3>1 DEF Join
    <3>2. CASE Learn(m)
      <4>1. \A a \in SUBSET Nodes : [m.says EXCEPT !.admins = a] \in Roster
        BY <2>1 DEF Roster
      <4>2. (IF m.says.admins = {} THEN roster[m.to].admins ELSE m.says.admins) \subseteq Nodes
        BY <2>1 DEF Roster
      <4>. QED  BY <2>1, <3>2, <4>1, <4>2 DEF Learn
    <3>3. CASE Kicked(m)
      BY <1>0, <2>1, <3>3 DEF Kicked, Forget
    <3>. QED  BY <1>10, <3>1, <3>2, <3>3 DEF Handle
  <2>. QED  BY <2>2, <2>3
<1>. QED  BY <1>1, <1>2, <1>3, <1>4, <1>5, <1>6, <1>7, <1>8, <1>9, <1>10 DEF RStep

\* Rosters, dialogs and payloads keep their types, and no payload is for its
\* own sender or, if it carries a roster, for somebody who is not in it.
THEOREM RoomsTypeCorrect == RSpec => []RoomsTypeOK
<1>1. RInit => RoomsTypeOK
  BY RoomsAssumption DEF RInit, RoomsTypeOK, Roster, Nobody
<1>2. RoomsTypeOK /\ [RNext]_rvars => RoomsTypeOK'
  <2>1. ASSUME RoomsTypeOK, RStep, Remember PROVE RoomsTypeOK'
    <3>1. Addressed(net') /\ holders' \subseteq Nodes
      BY <2>1, StepType
    <3>2. \A m \in net' : m.says.admins \subseteq Nodes
      BY <3>1 DEF Addressed, Payload, Roster
    <3>3. crowned' \subseteq Nodes
      BY <2>1, <3>1, <3>2 DEF Remember, RoomsTypeOK
    <3>. QED  BY <2>1, <3>1, <3>3, StepType DEF RoomsTypeOK, Addressed
  <2>2. CASE UNCHANGED rvars
    BY <2>2 DEF rvars, RoomsTypeOK
  <2>. QED  BY <2>1, <2>2 DEF RNext
<1>. QED  BY <1>1, <1>2, PTL DEF RSpec
-----------------------------------------------------------------------------
(* Who may be an admin.                                                    *)

\* Before the room is created, or after a program ended instead.
NoRoomYet == holders = {} /\ acts = 0

\* A payload names admins who were crowned; a roster names at least one, and
\* only members: what a newcomer stores can be used as it is.
PayloadsAreCrowned ==
  \A m \in net :
    /\ m.act <= acts
    /\ m.says.admins \subseteq crowned
    /\ m.type = "roster" => m.says.admins # {} /\ m.says.admins \subseteq m.says.members
    /\ m.type = "kick" => m.act > 0

\* Whoever a holder takes for an admin, itself included, was crowned.
RostersAreCrowned ==
  \A n \in holders : Meta(n, roster[n]).admins \subseteq crowned

\* A dialog outlives its user's rights, but it was opened by an admin.
DialogsAreCrowned ==
  \A n \in Nodes : dialog[n] # {} => n \in crowned

NothingYet ==
  NoRoomYet => net = {} /\ crowned = {} /\ \A n \in Nodes : dialog[n] = {}

CrownInv ==
  /\ RoomsTypeOK
  /\ PayloadsAreCrowned
  /\ RostersAreCrowned
  /\ DialogsAreCrowned
  /\ NothingYet

\* The history variable only grows, and takes in what a crowned sender says.
LEMMA CrownedGrows ==
  ASSUME CrownInv, Remember
  PROVE  /\ ~NoRoomYet => crowned \subseteq crowned'
         /\ ~NoRoomYet => \A m \in net' \ net : m.from \in crowned => m.says.admins \subseteq crowned'
         /\ ~NoRoomYet => (net' \subseteq net => crowned' = crowned)
         /\ NoRoomYet => crowned' = holders'
BY DEF Remember, NoRoomYet

KickOfNow(m) == m.act = acts' /\ m.says = Nobody /\ m.type = "kick"

\* n sends the roster it stores: either n is crowned, and crowns whom the roster
\* names, or the roster names nobody new.  A kick may go out with it.
LEMMA SendingInv ==
  ASSUME CrownInv, RoomsTypeOK', Remember,
         NEW n \in holders, NEW r \in Roster,
         Act, UNCHANGED holders,
         roster' = [roster EXCEPT ![n] = r],
         Fan(n, Meta(n, r)) \subseteq net',
         \A m \in net' : m \in net \/ m \in Fan(n, Meta(n, r)) \/ KickOfNow(m),
         \A q \in Nodes : dialog'[q] # {} => dialog[q] # {},
         n \in crowned \/ Meta(n, r).admins \subseteq crowned
  PROVE  CrownInv'
<1>. USE DEF CrownInv
<1>0. /\ n \in Nodes /\ acts \in Nat /\ acts' = acts + 1 /\ acts' \in 0..MaxActs
      /\ ~NoRoomYet /\ ~NoRoomYet'
  BY ActType, RoomsAssumption DEF RoomsTypeOK, NoRoomYet
<1>1. /\ Meta(n, r) \in Roster /\ Meta(n, r).admins # {}
      /\ Meta(n, r).admins \subseteq Meta(n, r).members
  BY <1>0, MetaFacts
<1>2. crowned \subseteq crowned'
  BY <1>0, CrownedGrows
<1>3. \A m \in Fan(n, Meta(n, r)) : m \notin net
  BY <1>0, <1>1, FanFacts DEF PayloadsAreCrowned
<1>4. Meta(n, r).admins \subseteq crowned'
  <2>1. CASE Fan(n, Meta(n, r)) # {}
    <3>1. PICK m \in Fan(n, Meta(n, r)) : TRUE
      BY <2>1
    <3>2. m \in net' \ net /\ m.from = n /\ m.says = Meta(n, r)
      BY <1>0, <1>1, <1>3, FanFacts
    <3>3. CASE n \in crowned
      BY <1>0, <3>2, <3>3, CrownedGrows
    <3>. QED  BY <1>2, <3>3
  <2>2. CASE Fan(n, Meta(n, r)) = {}
    <3>1. Meta(n, r).admins \subseteq {n}
      BY <1>0, <1>1, <2>2, FanFacts
    <3>. QED  BY <1>1, <1>2, <3>1
  <2>. QED  BY <2>1, <2>2
<1>5. PayloadsAreCrowned'
  <2>. SUFFICES ASSUME NEW m \in net'
                PROVE  /\ m.act <= acts' /\ m.says.admins \subseteq crowned'
                       /\ m.type = "roster" =>
                            m.says.admins # {} /\ m.says.admins \subseteq m.says.members
                       /\ m.type = "kick" => m.act > 0
    BY DEF PayloadsAreCrowned
  <2>1. CASE m \in net
    <3>1. m.act \in Nat /\ m.act <= acts'
      BY <1>0, <2>1 DEF PayloadsAreCrowned, RoomsTypeOK, Payload
    <3>. QED  BY <1>2, <2>1, <3>1 DEF PayloadsAreCrowned
  <2>2. CASE m \in Fan(n, Meta(n, r))
    <3>1. m.type = "roster" /\ m.says = Meta(n, r) /\ m.act = acts'
      BY <1>0, <1>1, <2>2, FanFacts
    <3>. QED  BY <1>0, <1>1, <1>4, <3>1
  <2>3. CASE KickOfNow(m)
    <3>1. m.says.admins = {} /\ m.act = acts' /\ m.type = "kick"
      BY <2>3 DEF KickOfNow, Nobody
    <3>. QED  BY <1>0, <3>1
  <2>. QED  BY <2>1, <2>2, <2>3
<1>6. RostersAreCrowned'
  <2>1. ASSUME NEW q \in holders PROVE Meta(q, roster'[q]).admins \subseteq crowned'
    <3>1. CASE q = n
      <4>1. roster'[q] = r
        BY <1>0, <3>1 DEF RoomsTypeOK
      <4>. QED  BY <1>4, <3>1, <4>1
    <3>2. CASE q # n
      <4>1. roster'[q] = roster[q]
        BY <3>2 DEF RoomsTypeOK
      <4>. QED  BY <1>2, <4>1 DEF RostersAreCrowned
    <3>. QED  BY <3>1, <3>2
  <2>2. \A q \in holders' : Meta(q, roster'[q]).admins \subseteq crowned'
    BY <2>1
  <2>. QED  BY <2>2 DEF RostersAreCrowned, Meta
<1>7. DialogsAreCrowned'
  BY <1>2 DEF DialogsAreCrowned
<1>8. NothingYet'
  BY <1>0 DEF NothingYet
<1>. QED  BY <1>5, <1>6, <1>7, <1>8

\* A window that handles a payload stores a roster of crowned admins, or none.
LEMMA HandleInv ==
  ASSUME CrownInv, RoomsTypeOK', Remember, NEW m \in net, Handle(m)
  PROVE  CrownInv'
<1>. USE DEF CrownInv
<1>0. /\ m.to \in Nodes /\ m.says \in Roster /\ m.act \in Nat /\ acts \in Nat
      /\ net' = net \ {m} /\ UNCHANGED <<dialog, acts>>
  BY RoomsAssumption DEF Handle, RoomsTypeOK, Payload
<1>1. ~NoRoomYet /\ crowned' = crowned
  BY <1>0, CrownedGrows DEF NothingYet
<1>2. PayloadsAreCrowned'
  BY <1>0, <1>1 DEF PayloadsAreCrowned
<1>3. ASSUME NEW a, m.type = "roster", a = m.says.admins
      PROVE  LET r == [members |-> m.says.members, admins |-> a]
             IN  r = m.says /\ Meta(m.to, r).admins \subseteq crowned
  BY <1>0, <1>3 DEF PayloadsAreCrowned, Meta, Roster
<1>4. RostersAreCrowned' /\ ~NoRoomYet'
  <2>1. CASE Join(m)
    <3>1. m.type = "roster" /\ holders' = holders \cup {m.to}
      BY <2>1 DEF Join
    <3>2. roster'[m.to] = m.says /\ \A q \in Nodes : q # m.to => roster'[q] = roster[q]
      BY <1>0, <2>1 DEF Join, RoomsTypeOK
    <3>3. Meta(m.to, m.says).admins \subseteq crowned
      BY <1>3, <3>1
    <3>4. ASSUME NEW q \in holders' PROVE Meta(q, roster'[q]).admins \subseteq crowned'
      <4>1. CASE q = m.to
        BY <1>1, <3>2, <3>3, <4>1
      <4>2. CASE q # m.to
        <5>1. q \in holders /\ roster'[q] = roster[q]
          BY <3>1, <3>2, <4>2 DEF RoomsTypeOK
        <5>. QED  BY <1>1, <5>1 DEF RostersAreCrowned
      <4>. QED  BY <4>1, <4>2
    <3>5. RostersAreCrowned'
      BY <3>4 DEF RostersAreCrowned, Meta
    <3>. QED  BY <3>1, <3>5 DEF NoRoomYet
  <2>2. CASE Learn(m)
    <3>1. m.type = "roster" /\ holders' = holders /\ m.to \in holders
      BY <2>2 DEF Learn
    <3>2. m.says.admins # {} /\ [m.says EXCEPT !.admins = m.says.admins] = m.says
      BY <1>0, <3>1 DEF PayloadsAreCrowned, Roster
    <3>3. roster' = roster \/ roster' = [roster EXCEPT ![m.to] = m.says]
      BY <2>2, <3>2 DEF Learn
    <3>4. Meta(m.to, m.says).admins \subseteq crowned
      BY <1>3, <3>1
    <3>5. ASSUME NEW q \in holders PROVE Meta(q, roster'[q]).admins \subseteq crowned
      <4>1. roster'[q] = roster[q] \/ (q = m.to /\ roster'[q] = m.says)
        BY <1>0, <3>3 DEF RoomsTypeOK
      <4>. QED  BY <3>4, <4>1 DEF RostersAreCrowned
    <3>6. RostersAreCrowned'
      BY <1>1, <3>1, <3>5 DEF RostersAreCrowned, Meta
    <3>. QED  BY <3>1, <3>6 DEF NoRoomYet
  <2>3. CASE Kicked(m)
    <3>1. m.type = "kick" /\ holders' = holders \ {m.to}
      BY <2>3 DEF Kicked, Forget
    <3>2. \A q \in holders' : roster'[q] = roster[q]
      BY <1>0, <2>3, <3>1 DEF Kicked, Forget, RoomsTypeOK
    <3>3. \A q \in holders' : Meta(q, roster'[q]).admins \subseteq crowned'
      BY <1>1, <3>1, <3>2 DEF RostersAreCrowned
    <3>4. RostersAreCrowned'
      BY <3>3 DEF RostersAreCrowned, Meta
    <3>5. acts' # 0
      BY <1>0, <3>1 DEF PayloadsAreCrowned
    <3>. QED  BY <3>4, <3>5 DEF NoRoomYet
  <2>. QED  BY <2>1, <2>2, <2>3 DEF Handle
<1>5. DialogsAreCrowned'
  BY <1>0, <1>1 DEF DialogsAreCrowned
<1>6. NothingYet'
  BY <1>4 DEF NothingYet
<1>. QED  BY <1>2, <1>4, <1>5, <1>6

LEMMA CreateInv ==
  ASSUME CrownInv, RoomsTypeOK', Remember,
         NEW n \in Nodes, NEW S \in SUBSET (Nodes \ {n}), Create(n, S)
  PROVE  CrownInv'
<1>. USE DEF CrownInv
<1>. DEFINE r == [members |-> S, admins |-> {n}]
<1>0. /\ NoRoomYet /\ ~NoRoomYet' /\ acts' = 0 /\ acts' \in 0..MaxActs
      /\ holders' = {n} /\ crowned' = {n} /\ UNCHANGED dialog
      /\ r \in Roster /\ roster' = [roster EXCEPT ![n] = r]
  BY RoomsAssumption, CrownedGrows DEF Create, NoRoomYet, Roster
<1>1. roster'[n] = r
  BY <1>0 DEF RoomsTypeOK
<1>2. /\ Meta(n, r) \in Roster /\ Meta(n, r).admins # {}
      /\ Meta(n, r).admins \subseteq Meta(n, r).members
  BY <1>0, MetaFacts
<1>3. Meta(n, r).admins \subseteq {n}
  BY <1>0 DEF Meta
<1>4. net' = Fan(n, Meta(n, r))
  BY <1>1 DEF Create
<1>5. \A m \in net' : m.type = "roster" /\ m.says = Meta(n, r) /\ m.act = 0
  BY <1>0, <1>2, <1>4, FanFacts
<1>6. PayloadsAreCrowned'
  <2>1. ASSUME NEW m \in net'
        PROVE  /\ m.act <= acts' /\ m.says.admins \subseteq crowned' /\ m.type # "kick"
               /\ m.says.admins # {} /\ m.says.admins \subseteq m.says.members
    <3>1. m.type = "roster" /\ m.says = Meta(n, r) /\ m.act = 0
      BY <1>5
    <3>2. m.says.admins \subseteq crowned'
      BY <1>0, <1>3, <3>1
    <3>3. m.says.admins # {} /\ m.says.admins \subseteq m.says.members
      BY <1>2, <3>1
    <3>4. m.act <= acts' /\ m.type # "kick"
      BY <1>0, <3>1
    <3>. QED  BY <3>2, <3>3, <3>4
  <2>. QED  BY <2>1 DEF PayloadsAreCrowned
<1>7. RostersAreCrowned'
  <2>1. \A q \in holders' : Meta(q, roster'[q]).admins \subseteq crowned'
    BY <1>0, <1>1, <1>3
  <2>. QED  BY <2>1 DEF RostersAreCrowned, Meta
<1>8. DialogsAreCrowned' /\ NothingYet'
  BY <1>0 DEF NothingYet, DialogsAreCrowned
<1>. QED  BY <1>6, <1>7, <1>8

\* What n sends when it leaves names the other admins or, if there are none, a
\* member to take over: then n was the only admin.
LEMMA LeaveInv ==
  ASSUME CrownInv, RoomsTypeOK', Remember, NEW n \in Nodes, Leave(n)
  PROVE  CrownInv'
<1>. USE DEF CrownInv
<1>0. /\ n \in holders /\ acts \in Nat /\ acts' = acts + 1 /\ acts' \in 0..MaxActs
      /\ ~NoRoomYet /\ ~NoRoomYet' /\ crowned \subseteq crowned'
  BY ActType, RoomsAssumption, CrownedGrows DEF Leave, RoomsTypeOK, NoRoomYet
<1>1. /\ holders' = holders \ {n} /\ \A q \in holders' : roster'[q] = roster[q]
      /\ \A q \in Nodes : dialog'[q] # {} => dialog[q] # {}
  BY <1>0 DEF Leave, Forget, RoomsTypeOK
<1>2. RostersAreCrowned'
  <2>1. \A q \in holders' : Meta(q, roster'[q]).admins \subseteq crowned'
    BY <1>0, <1>1 DEF RostersAreCrowned
  <2>. QED  BY <2>1 DEF RostersAreCrowned, Meta
<1>3. PayloadsAreCrowned'
  <2>0. \A m \in net : m.act \in Nat
    BY DEF RoomsTypeOK, Payload
  <2>1. CASE UNCHANGED net
    BY <1>0, <2>0, <2>1 DEF PayloadsAreCrowned
  <2>2. CASE DeleteGroup(n)
    <3>. DEFINE meta   == Meta(n, roster[n])
                others == meta.members \ {n}
    <3>1. PICK a \in Ensured(others, meta.admins \ {n}) :
            net' = net \cup Fan(n, [members |-> others, admins |-> a])
      BY <2>2 DEF DeleteGroup
    <3>2. roster[n] \in Roster /\ meta \in Roster /\ meta.admins # {} /\ meta.admins \subseteq meta.members
      BY MetaFacts DEF RoomsTypeOK
    <3>. DEFINE says == [members |-> others, admins |-> a]
    <3>3. a \subseteq others /\ (others # {} => a # {})
      BY EnsuredFacts
    <3>4. says \in Roster
      BY <3>2, <3>3 DEF Roster
    <3>5. \A m \in Fan(n, says) :
             /\ m.type = "roster" /\ m.from = n /\ m.to \in others /\ m.says = says /\ m.act = acts'
      BY <1>0, <3>4, FanFacts
    <3>6. \A m \in Fan(n, says) : m \notin net
      BY <1>0, <3>5 DEF PayloadsAreCrowned
    <3>7. ASSUME NEW m \in Fan(n, says) PROVE a \subseteq crowned'
      <4>1. CASE meta.admins \ {n} # {}
        <5>1. (meta.admins \ {n}) \cap others # {}
          BY <3>2, <4>1
        <5>2. a = (meta.admins \ {n}) \cap others
          BY <5>1, EnsuredFacts
        <5>. QED  BY <1>0, <5>2 DEF RostersAreCrowned
      <4>2. CASE meta.admins \ {n} = {}
        <5>1. n \in meta.admins
          BY <3>2, <4>2
        <5>2. n \in crowned
          BY <1>0, <5>1 DEF RostersAreCrowned
        <5>3. m \in net' \ net /\ m.from = n /\ m.says.admins = a
          BY <3>1, <3>5, <3>6
        <5>. QED  BY <1>0, <5>2, <5>3, CrownedGrows
      <4>. QED  BY <4>1, <4>2
    <3>8. \A m \in net :
             /\ m.act <= acts' /\ m.says.admins \subseteq crowned'
      BY <1>0, <2>0 DEF PayloadsAreCrowned
    <3>9. \A m \in Fan(n, says) :
             /\ m.act <= acts' /\ m.says.admins \subseteq crowned' /\ m.type = "roster"
             /\ m.says.admins # {} /\ m.says.admins \subseteq m.says.members
      <4>1. ASSUME NEW m \in Fan(n, says)
            PROVE  /\ m.act <= acts' /\ m.says.admins \subseteq crowned' /\ m.type = "roster"
                   /\ m.says.admins # {} /\ m.says.admins \subseteq m.says.members
        <5>1. /\ m.type = "roster" /\ m.to \in others /\ m.act = acts'
              /\ m.says.admins = a /\ m.says.members = others
          BY <3>5
        <5>2. m.act <= acts'
          BY <1>0, <5>1
        <5>3. a # {} /\ a \subseteq others /\ a \subseteq crowned'
          BY <3>3, <3>7, <5>1
        <5>. QED  BY <5>1, <5>2, <5>3
      <4>. QED  BY <4>1
    <3>. QED  BY <3>1, <3>8, <3>9 DEF PayloadsAreCrowned
  <2>. QED  BY <2>1, <2>2 DEF Leave, DeleteChannel
<1>4. DialogsAreCrowned'
  BY <1>0, <1>1 DEF DialogsAreCrowned
<1>5. NothingYet'
  BY <1>0 DEF NothingYet
<1>. QED  BY <1>2, <1>3, <1>4, <1>5

\* A program that ends only loses payloads, and closes its dialog.
LEMMA QuitInv ==
  ASSUME CrownInv, RoomsTypeOK', Remember, NEW n \in Nodes, Quit(n)
  PROVE  CrownInv'
<1>. USE DEF CrownInv
<1>0. /\ acts \in Nat /\ acts' = acts + 1 /\ ~NoRoomYet'
      /\ net' \subseteq net /\ UNCHANGED <<holders, roster>>
      /\ \A q \in Nodes : dialog'[q] # {} => dialog[q] # {}
  BY ActType, RoomsAssumption DEF Quit, RoomsTypeOK, NoRoomYet
<1>1. crowned' = crowned
  BY <1>0, CrownedGrows DEF NothingYet, NoRoomYet
<1>2. \A m \in net : m.act \in Nat
  BY DEF RoomsTypeOK, Payload
<1>3. PayloadsAreCrowned'
  BY <1>0, <1>1, <1>2 DEF PayloadsAreCrowned
<1>4. RostersAreCrowned'
  BY <1>0, <1>1 DEF RostersAreCrowned, Meta
<1>5. DialogsAreCrowned' /\ NothingYet'
  BY <1>0, <1>1 DEF DialogsAreCrowned, NothingYet
<1>. QED  BY <1>3, <1>4, <1>5

\* Only an admin opens a dialog.
LEMMA DialogInv ==
  ASSUME CrownInv, RoomsTypeOK', Remember, NEW n \in Nodes, Manage(n) \/ CloseDialog(n)
  PROVE  CrownInv'
<1>. USE DEF CrownInv
<1>0. UNCHANGED <<holders, roster, net, acts>>
  BY DEF Manage, CloseDialog
<1>1. ~NoRoomYet
  BY DEF Manage, CloseDialog, IsAdmin, NothingYet, NoRoomYet
<1>2. crowned' = crowned
  BY <1>0, <1>1, CrownedGrows
<1>3. PayloadsAreCrowned' /\ RostersAreCrowned'
  BY <1>0, <1>2 DEF PayloadsAreCrowned, RostersAreCrowned, Meta
<1>4. DialogsAreCrowned'
  <2>1. Manage(n) => n \in crowned
    BY DEF Manage, IsAdmin, RostersAreCrowned
  <2>2. \A q \in Nodes : dialog'[q] # {} => dialog[q] # {} \/ (Manage(n) /\ q = n)
    BY DEF Manage, CloseDialog, RoomsTypeOK
  <2>. QED  BY <1>2, <2>1, <2>2 DEF DialogsAreCrowned
<1>5. NothingYet'
  BY <1>0, <1>1 DEF NothingYet, NoRoomYet
<1>. QED  BY <1>3, <1>4, <1>5

\* Change is the way a post, an addition and a promotion reach the others.
LEMMA ChangeInv ==
  ASSUME CrownInv, RoomsTypeOK', Remember,
         NEW n \in holders, NEW r \in Roster, Act, Change(n, r),
         n \in crowned \/ Meta(n, r).admins \subseteq crowned
  PROVE  CrownInv'
<1>1. \A q \in Nodes : dialog'[q] # {} => dialog[q] # {}
  BY DEF Change, CrownInv, RoomsTypeOK
<1>2. UNCHANGED holders /\ roster' = [roster EXCEPT ![n] = r] /\ net' = net \cup Fan(n, Meta(n, r))
  BY DEF Change
<1>3. \A m \in net' : m \in net \/ m \in Fan(n, Meta(n, r)) \/ KickOfNow(m)
  BY <1>2
<1>4. Fan(n, Meta(n, r)) \subseteq net'
  BY <1>2
<1>. QED  BY <1>1, <1>2, <1>3, <1>4, SendingInv

LEMMA RemoveMemberInv ==
  ASSUME CrownInv, RoomsTypeOK', Remember, NEW n \in Nodes, NEW p \in Nodes, RemoveMember(n, p)
  PROVE  CrownInv'
<1>. DEFINE r == [members |-> roster[n].members \ {p}, admins |-> roster[n].admins \ {p}]
<1>1. /\ Act /\ n \in holders /\ UNCHANGED holders /\ dialog[n] # {} /\ acts' \in 0..MaxActs
      /\ r \in Roster
  BY ActType DEF RemoveMember, CrownInv, RoomsTypeOK, Roster
<1>2. n \in crowned
  BY <1>1 DEF CrownInv, DialogsAreCrowned
<1>3. \A q \in Nodes : dialog'[q] # {} => dialog[q] # {}
  BY <1>1 DEF RemoveMember, CrownInv, RoomsTypeOK
<1>4. CASE GroupRemoves(n, p, r)
  <2>1. PICK a \in Ensured(r.members, r.admins) :
          /\ roster' = [roster EXCEPT ![n] = [r EXCEPT !.admins = a]]
          /\ net' = net \cup Fan(n, Meta(n, roster'[n])) \cup {Kick(n, p)}
    BY <1>4 DEF GroupRemoves
  <2>. DEFINE s == [r EXCEPT !.admins = a]
  <2>2. s \in Roster
    BY <1>1, EnsuredFacts DEF Roster
  <2>3. roster'[n] = s
    BY <2>1 DEF CrownInv, RoomsTypeOK
  <2>4. roster' = [roster EXCEPT ![n] = s] /\ net' = net \cup Fan(n, Meta(n, s)) \cup {Kick(n, p)}
    BY <2>1, <2>3
  <2>5. KickOfNow(Kick(n, p))
    BY <1>1, KickFacts DEF KickOfNow
  <2>6. /\ Fan(n, Meta(n, s)) \subseteq net'
        /\ \A m \in net' : m \in net \/ m \in Fan(n, Meta(n, s)) \/ KickOfNow(m)
    BY <2>4, <2>5
  <2>. HIDE DEF s
  <2>. QED  BY <1>1, <1>2, <1>3, <2>2, <2>4, <2>6, SendingInv
<1>5. CASE ChannelRemoves(n, r)
  <2>1. roster' = [roster EXCEPT ![n] = r] /\ net' = net \cup Fan(n, Meta(n, r))
    BY <1>5 DEF ChannelRemoves
  <2>2. /\ Fan(n, Meta(n, r)) \subseteq net'
        /\ \A m \in net' : m \in net \/ m \in Fan(n, Meta(n, r)) \/ KickOfNow(m)
    BY <2>1
  <2>. HIDE DEF r
  <2>. QED  BY <1>1, <1>2, <1>3, <2>1, <2>2, SendingInv
<1>. QED  BY <1>4, <1>5 DEF RemoveMember

LEMMA CrownInvStep ==
  ASSUME CrownInv, RoomsTypeOK', [RNext]_rvars
  PROVE  CrownInv'
<1>0. ASSUME NEW n \in Nodes, dialog[n] # {} PROVE n \in crowned
  BY <1>0 DEF CrownInv, DialogsAreCrowned
<1>a. roster \in [Nodes -> Roster] /\ holders \subseteq Nodes
  BY DEF CrownInv, RoomsTypeOK
<1>1. ASSUME NEW n \in Nodes, Remember, Post(n) PROVE CrownInv'
  <2>1. n \in holders /\ Act /\ Change(n, roster[n])
    BY <1>1 DEF Post
  <2>2. Meta(n, roster[n]).admins \subseteq crowned
    BY <2>1 DEF CrownInv, RostersAreCrowned
  <2>. QED  BY <1>1, <1>a, <2>1, <2>2, ChangeInv
<1>2. ASSUME NEW n \in Nodes, NEW p \in Nodes, Remember, AddMember(n, p) PROVE CrownInv'
  <2>1. [roster[n] EXCEPT !.members = @ \cup {p}] \in Roster
    BY <1>a DEF Roster
  <2>2. n \in holders /\ Act /\ n \in crowned
    BY <1>0, <1>2 DEF AddMember
  <2>. QED  BY <1>2, <2>1, <2>2, ChangeInv DEF AddMember
<1>3. ASSUME NEW n \in Nodes, NEW p \in Nodes, NEW make \in BOOLEAN, Remember, SetAdmin(n, p, make)
      PROVE  CrownInv'
  <2>. DEFINE adm == IF make THEN roster[n].admins \cup {p} ELSE roster[n].admins \ {p}
  <2>1. n \in holders /\ Act /\ n \in crowned
    BY <1>0, <1>3 DEF SetAdmin
  <2>2. adm \subseteq Nodes /\ roster[n].members \subseteq Nodes
    BY <1>a DEF Roster
  <2>3. PICK a \in SUBSET Nodes : Change(n, [roster[n] EXCEPT !.admins = a])
    <3>1. CASE GroupSetAdmin(n, adm)
      <4>1. PICK a \in Ensured(roster[n].members, adm) :
              Change(n, [roster[n] EXCEPT !.admins = a])
        BY <3>1 DEF GroupSetAdmin
      <4>2. a \subseteq roster[n].members
        BY EnsuredFacts
      <4>. QED  BY <2>2, <4>1, <4>2
    <3>2. CASE ChannelSetAdmin(n, adm)
      BY <2>2, <3>2 DEF ChannelSetAdmin
    <3>. QED  BY <1>3, <3>1, <3>2 DEF SetAdmin
  <2>4. [roster[n] EXCEPT !.admins = a] \in Roster
    BY <1>a DEF Roster
  <2>. QED  BY <1>3, <2>1, <2>3, <2>4, ChangeInv
<1>4. CASE UNCHANGED rvars
  BY <1>4 DEF rvars, CrownInv, PayloadsAreCrowned, RostersAreCrowned, DialogsAreCrowned,
              NothingYet, NoRoomYet, Meta
<1>. QED  BY <1>1, <1>2, <1>3, <1>4, CreateInv, LeaveInv, QuitInv, DialogInv, RemoveMemberInv,
             HandleInv DEF RNext, RStep

\* Whoever manages the room, or is sent round as an admin of it, was crowned:
\* the rosters replicated without versions, the dialogs that outlive their
\* user's rights and _group_meta's fallback make nobody an admin.
THEOREM NobodyCrownsHimself == RSpec => []AuthorityIsHandedDown
<1>1. RInit => CrownInv
  <2>1. RInit => RoomsTypeOK
    BY RoomsAssumption DEF RInit, RoomsTypeOK, Roster, Nobody
  <2>. QED  BY <2>1 DEF RInit, CrownInv, PayloadsAreCrowned, RostersAreCrowned, DialogsAreCrowned,
                        NothingYet
<1>2. CrownInv /\ RoomsTypeOK' /\ [RNext]_rvars => CrownInv'
  BY CrownInvStep
<1>3. CrownInv => AuthorityIsHandedDown
  BY DEF CrownInv, RostersAreCrowned, PayloadsAreCrowned, AuthorityIsHandedDown, IsAdmin
<1>. QED  BY <1>1, <1>2, <1>3, RoomsTypeCorrect, PTL DEF RSpec

-----------------------------------------------------------------------------
(* Presence.                                                               *)

\* The constants, one by one.
LEMMA PresenceConstants ==
  /\ Local \subseteq Peers
  /\ ProbeAfter \in Nat /\ Timeout \in Nat /\ Drop \in Nat /\ SweepEvery \in Nat \ {0}
  /\ Workers \in Nat /\ PerUnit \in Nat \ {0} /\ MaxTurns \in Nat
BY PresenceAssumption

LEMMA LongerType ==
  ASSUME NEW most \in Nat, NEW n \in 0..most
  PROVE  Longer(n, most) \in 0..most
BY DEF Longer

\* Taking out what is at i moves what is behind it forward.
LEMMA RemovedAt ==
  ASSUME NEW s \in Seq(Peers), NEW i \in DOMAIN s
  PROVE  /\ RemoveAt(s, i) \in Seq(Peers) /\ DOMAIN RemoveAt(s, i) = 1..(Len(s) - 1)
         /\ \A k \in 1..(Len(s) - 1) : RemoveAt(s, i)[k] = IF k < i THEN s[k] ELSE s[k + 1]
<1>. DEFINE a == SubSeq(s, 1, i - 1)
            b == SubSeq(s, i + 1, Len(s))
            t == RemoveAt(s, i)
<1>1. i \in 1..Len(s) /\ Len(s) \in Nat /\ \A k \in 1..Len(s) : s[k] \in Peers
  OBVIOUS
<1>2. a \in Seq(Peers) /\ Len(a) = i - 1 /\ \A k \in 1..(i - 1) : a[k] = s[k]
  <2>1. \A k \in 1..(i - 1) : s[k] \in Peers
    BY <1>1
  <2>2. 1 \in Int /\ i - 1 \in Int
    BY <1>1
  <2>. QED  BY <1>1, <2>1, <2>2, SubSeqProperties
<1>3. b \in Seq(Peers) /\ Len(b) = Len(s) - i /\ \A k \in 1..(Len(s) - i) : b[k] = s[k + i]
  <2>1. \A k \in (i + 1)..Len(s) : s[k] \in Peers
    BY <1>1
  <2>2. i + 1 \in Int /\ Len(s) \in Int
    BY <1>1
  <2>3. /\ b \in Seq(Peers)
        /\ Len(b) = IF i + 1 <= Len(s) THEN Len(s) - (i + 1) + 1 ELSE 0
        /\ \A k \in 1..(Len(s) - (i + 1) + 1) : b[k] = s[(i + 1) + k - 1]
    BY <2>1, <2>2, SubSeqProperties
  <2>. HIDE DEF b
  <2>4. Len(s) - (i + 1) + 1 = Len(s) - i
    BY <1>1
  <2>5. \A k \in 1..(Len(s) - i) : (i + 1) + k - 1 = k + i
    BY <1>1
  <2>. QED  BY <1>1, <2>3, <2>4, <2>5
<1>4. t = a \o b
  BY DEF RemoveAt
<1>. HIDE DEF a, b
<1>5. /\ a \o b \in Seq(Peers) /\ Len(a \o b) = Len(a) + Len(b)
      /\ \A k \in 1..(Len(a) + Len(b)) : (a \o b)[k] = IF k <= Len(a) THEN a[k] ELSE b[k - Len(a)]
  BY <1>2, <1>3, ConcatProperties
<1>. HIDE DEF t
<1>6. /\ t \in Seq(Peers) /\ DOMAIN t = 1..(Len(s) - 1)
      /\ \A k \in 1..(Len(s) - 1) : t[k] = IF k < i THEN s[k] ELSE s[k + 1]
  <2>1. Len(a) + Len(b) = Len(s) - 1
    BY <1>1, <1>2, <1>3
  <2>2. t \in Seq(Peers) /\ DOMAIN t = 1..(Len(s) - 1)
    BY <1>4, <1>5, <2>1
  <2>3. ASSUME NEW k \in 1..(Len(s) - 1) PROVE t[k] = IF k < i THEN s[k] ELSE s[k + 1]
    <3>1. t[k] = IF k <= i - 1 THEN a[k] ELSE b[k - (i - 1)]
      BY <1>2, <1>4, <1>5, <2>1, <2>3
    <3>2. CASE k < i
      BY <1>1, <1>2, <3>1, <3>2
    <3>3. CASE ~(k < i)
      <4>1. k - (i - 1) \in 1..(Len(s) - i) /\ (k - (i - 1)) + i = k + 1
        BY <1>1, <3>3
      <4>. QED  BY <1>1, <1>3, <3>1, <3>3, <4>1
    <3>. QED  BY <3>2, <3>3
  <2>. QED  BY <2>2, <2>3
<1>. QED  BY <1>6 DEF t

\* A worker takes one probe out of the pool and leaves the others.
LEMMA TakenOut ==
  ASSUME NEW s \in Seq(Peers), IsInjective(s), NEW i \in DOMAIN s
  PROVE  /\ RemoveAt(s, i) \in Seq(Peers) /\ IsInjective(RemoveAt(s, i))
         /\ ToSet(RemoveAt(s, i)) \subseteq ToSet(s) /\ s[i] \notin ToSet(RemoveAt(s, i))
         /\ s[i] \in ToSet(s)
<1>. DEFINE t == RemoveAt(s, i)
<1>1. i \in 1..Len(s) /\ Len(s) \in Nat /\ \A k \in 1..Len(s) : s[k] \in Peers
  OBVIOUS
<1>6. /\ t \in Seq(Peers) /\ DOMAIN t = 1..(Len(s) - 1)
      /\ \A k \in 1..(Len(s) - 1) : t[k] = IF k < i THEN s[k] ELSE s[k + 1]
  BY RemovedAt
<1>. HIDE DEF t
<1>7. \A k \in DOMAIN t : \E m \in DOMAIN s : m # i /\ t[k] = s[m] /\ m = IF k < i THEN k ELSE k + 1
  BY <1>1, <1>6
<1>8. IsInjective(t)
  <2>1. SUFFICES ASSUME NEW k \in DOMAIN t, NEW l \in DOMAIN t, t[k] = t[l] PROVE k = l
    BY DEF IsInjective
  <2>2. PICK m \in DOMAIN s : t[k] = s[m] /\ m = IF k < i THEN k ELSE k + 1
    BY <1>7
  <2>3. PICK n \in DOMAIN s : t[l] = s[n] /\ n = IF l < i THEN l ELSE l + 1
    BY <1>7
  <2>4. m = n
    BY <2>1, <2>2, <2>3 DEF IsInjective
  <2>. QED  BY <1>1, <1>6, <2>2, <2>3, <2>4
<1>9. ToSet(t) \subseteq ToSet(s) /\ s[i] \notin ToSet(t) /\ s[i] \in ToSet(s)
  BY <1>7 DEF ToSet, IsInjective
<1>10. t \in Seq(Peers)
  BY <1>6
<1>. QED  BY <1>8, <1>9, <1>10 DEF t

\* The pool, as PresenceTypeOK has it.
PoolOK == pool \in Seq(Peers) /\ IsInjective(pool) /\ answered \cap ToSet(pool) = {}

\* _submit_probe leaves one probe of a peer.
LEMMA SubmitStep ==
  ASSUME PoolOK, NEW p \in Peers, Submit(p), answered' = answered
  PROVE  PoolOK'
<1>1. CASE p \in Probing
  BY <1>1 DEF Submit, PoolOK, Probing
<1>2. CASE p \notin Probing
  <2>1. pool' = Append(pool, p) /\ p \notin ToSet(pool) /\ p \notin answered
    BY <1>2 DEF Submit, Probing
  <2>2. /\ pool' \in Seq(Peers) /\ Len(pool') = Len(pool) + 1 /\ Len(pool) \in Nat
        /\ \A k \in 1..Len(pool) : pool'[k] = pool[k]
        /\ pool'[Len(pool) + 1] = p
    BY <2>1, AppendProperties DEF PoolOK
  <2>3. DOMAIN pool = 1..Len(pool) /\ DOMAIN pool' = 1..(Len(pool) + 1)
    BY <2>2 DEF PoolOK
  <2>4. ToSet(pool') = ToSet(pool) \cup {p}
    BY <2>2, <2>3 DEF ToSet
  <2>5. IsInjective(pool')
    BY <2>1, <2>2, <2>3 DEF PoolOK, IsInjective, ToSet
  <2>. QED  BY <2>1, <2>2, <2>4, <2>5 DEF PoolOK, Probing
<1>. QED  BY <1>1, <1>2

\* PresenceTypeOK in three parts: who is in which set, the clocks, and the pool.
Contacts ==
  /\ known \subseteq Peers /\ manual \subseteq known
  /\ hidden \subseteq Peers /\ dropped \subseteq hidden
  /\ cands \subseteq Peers /\ answered \subseteq Peers

Clocks ==
  /\ mode \in [Peers -> Modes] /\ age \in [Peers -> 0..Old]
  /\ swept \in 0..SweepEvery /\ ended \in 0..PerUnit /\ turns \in 0..MaxTurns
  /\ steady \in [Peers -> 0..Patience]

LEMMA PresenceParts == PresenceTypeOK <=> (Contacts /\ Clocks /\ PoolOK)
BY DEF PresenceTypeOK, Contacts, Clocks, PoolOK

PresenceInv == Contacts /\ Clocks /\ PoolOK

LEMMA PresenceStarts == PInit => PresenceInv
<1>. SUFFICES ASSUME PInit PROVE PresenceInv
  OBVIOUS
<1>. USE PresenceConstants
<1>1. Contacts
  BY DEF PInit, Contacts
<1>2. Clocks
  BY DEF PInit, Clocks, Old, Patience
<1>3. PoolOK
  <2>1. << >> \in Seq(Peers)
    OBVIOUS
  <2>2. IsInjective(<< >>)
    BY DEF IsInjective
  <2>. QED  BY <2>1, <2>2 DEF PInit, PoolOK
<1>. QED  BY <1>1, <1>2, <1>3 DEF PresenceInv

\* Clocks, action by action.
LEMMA ClocksStep ==
  ASSUME Clocks, [PNext]_pvars
  PROVE  Clocks'
<1>. USE PresenceConstants
<1>0. /\ mode \in [Peers -> Modes] /\ age \in [Peers -> 0..Old]
      /\ swept \in 0..SweepEvery /\ ended \in 0..PerUnit /\ turns \in 0..MaxTurns
      /\ steady \in [Peers -> 0..Patience]
  BY DEF Clocks
<1>1. Old \in Nat /\ Patience \in Nat
  BY DEF Old, Patience
<1>2. mode' \in [Peers -> Modes]
  <2>1. CASE mode' = mode
    BY <1>0, <2>1
  <2>2. ASSUME NEW p \in Peers, NEW m \in Modes, PeerTurns(p, m) PROVE mode' \in [Peers -> Modes]
    BY <1>0, <2>2 DEF PeerTurns
  <2>3. mode' = mode \/ \E p \in Peers, m \in Modes : PeerTurns(p, m)
    BY DEF PNext, pvars, Contact, User, Probe, Message, Beacon, Connect, GroupMember, Delete,
           Look, SweepSubmits, ProbeTouches, Try, Reap, Tick
  <2>. QED  BY <2>1, <2>2, <2>3
<1>3. age' \in [Peers -> 0..Old]
  <2>1. \/ age' = age
        \/ \E p \in Peers : age' = [age EXCEPT ![p] = 0] \/ age' = [age EXCEPT ![p] = Old]
        \/ age' = [p \in Peers |-> Longer(age[p], Old)]
    BY DEF PNext, pvars, Contact, User, Probe, PeerTurns, Message, Beacon, Touch, Connect, GroupMember,
           AddManual, Delete, Look, SweepSubmits, ProbeTouches, Try, Reap, Tick
  <2>2. \A p \in Peers : Longer(age[p], Old) \in 0..Old
    BY <1>0, <1>1, LongerType
  <2>. QED  BY <1>0, <1>1, <2>1, <2>2
<1>4. steady' \in [Peers -> 0..Patience]
  <2>1. \/ steady' = steady
        \/ \E p \in Peers : steady' = [steady EXCEPT ![p] = 0]
        \/ steady' = [p \in Peers |-> Longer(steady[p], Patience)]
    BY DEF PNext, pvars, Contact, User, Probe, PeerTurns, Message, Beacon, Connect, GroupMember,
           AddManual, Delete, Look, SweepSubmits, ProbeTouches, Try, Reap, Tick
  <2>2. \A p \in Peers : Longer(steady[p], Patience) \in 0..Patience
    BY <1>0, <1>1, LongerType
  <2>. QED  BY <1>0, <1>1, <2>1, <2>2
<1>5. swept' \in 0..SweepEvery
  <2>1. swept' = swept \/ swept' = 0 \/ (swept < SweepEvery /\ swept' = swept + 1)
    BY DEF PNext, pvars, Contact, User, Probe, PeerTurns, Message, Beacon, Connect, GroupMember,
           Delete, Look, SweepSubmits, ProbeTouches, Try, Reap, Tick
  <2>. QED  BY <1>0, <2>1
<1>6. ended' \in 0..PerUnit
  <2>1. ended' = ended \/ ended' = 0 \/ ended' = Longer(ended, PerUnit)
    BY DEF PNext, pvars, Contact, User, Probe, PeerTurns, Message, Beacon, Connect, GroupMember,
           Delete, Look, SweepSubmits, ProbeTouches, Try, Reap, Tick
  <2>2. Longer(ended, PerUnit) \in 0..PerUnit
    BY <1>0, LongerType
  <2>. QED  BY <1>0, <2>1, <2>2
<1>7. turns' \in 0..MaxTurns
  <2>1. turns' = turns \/ (turns < MaxTurns /\ turns' = turns + 1)
    BY DEF PNext, pvars, Contact, User, Probe, PeerTurns, Message, Beacon, Connect, GroupMember,
           Turn, Delete, Look, SweepSubmits, ProbeTouches, Try, Reap, Tick
  <2>. QED  BY <1>0, <2>1
<1>. QED  BY <1>2, <1>3, <1>4, <1>5, <1>6, <1>7 DEF Clocks

\* Where a peer may be, action by action.
Sets == Contacts /\ PoolOK

LEMMA ContactStep ==
  ASSUME Sets, NEW p \in Peers, Message(p) \/ Beacon(p) \/ ProbeTouches(p)
  PROVE  Sets'
<1>1. PoolOK'
  BY DEF Sets, PoolOK, Message, Beacon, ProbeTouches
<1>2. Contacts'
  BY DEF Sets, Contacts, Message, Beacon, ProbeTouches, Touch
<1>. QED  BY <1>1, <1>2 DEF Sets

LEMMA AddedStep ==
  ASSUME Sets, NEW p \in Peers, Connect(p) \/ GroupMember(p)
  PROVE  Sets'
<1>1. /\ Submit(p) /\ answered' = answered /\ cands' = cands
      /\ manual' = manual \cup {p} /\ known' = known \cup {p}
      /\ dropped' = dropped \ {p} /\ hidden' \in {hidden, hidden \ {p}}
  BY DEF Connect, GroupMember, AddManual
<1>2. PoolOK'
  BY <1>1, SubmitStep DEF Sets
<1>3. Contacts'
  BY <1>1 DEF Sets, Contacts
<1>. QED  BY <1>1, <1>2, <1>3 DEF Sets

LEMMA DeletedStep ==
  ASSUME Sets, NEW p \in Peers, Delete(p)
  PROVE  Sets'
<1>1. PoolOK'
  BY DEF Sets, PoolOK, Delete
<1>2. Contacts'
  BY DEF Sets, Contacts, Delete
<1>. QED  BY <1>1, <1>2 DEF Sets

LEMMA SweepStep ==
  ASSUME Sets, Look \/ Reap \/ Tick \/ UNCHANGED pvars \/ \E p \in Peers : \E m \in Modes : PeerTurns(p, m)
  PROVE  Sets'
<1>1. /\ pool' = pool /\ answered' = answered
      /\ manual' = manual /\ hidden' = hidden /\ dropped' = dropped
      /\ known' \subseteq known /\ manual \cap known \subseteq known'
      /\ cands' \subseteq cands \cup manual \cup known
  BY DEF Look, Reap, Tick, PeerTurns, pvars
<1>2. PoolOK'
  BY <1>1 DEF Sets, PoolOK
<1>3. Contacts'
  BY <1>1 DEF Sets, Contacts
<1>. QED  BY <1>1, <1>2, <1>3 DEF Sets, Contacts

LEMMA SubmittedStep ==
  ASSUME Sets, NEW p \in Peers, SweepSubmits(p)
  PROVE  Sets'
<1>1. /\ Submit(p) /\ answered' = answered /\ p \in cands /\ cands' = cands \ {p}
      /\ UNCHANGED <<known, manual, hidden, dropped>>
  BY DEF SweepSubmits
<1>2. PoolOK'
  BY <1>1, SubmitStep DEF Sets
<1>3. Contacts'
  BY <1>1 DEF Sets, Contacts
<1>. QED  BY <1>1, <1>2, <1>3 DEF Sets

LEMMA TriedStep ==
  ASSUME Sets, NEW i \in DOMAIN pool, Try(i)
  PROVE  Sets'
<1>1. pool \in Seq(Peers) /\ IsInjective(pool) /\ answered \cap ToSet(pool) = {} /\ answered \subseteq Peers
  BY DEF Sets, PoolOK, Contacts
<1>2. /\ pool' = RemoveAt(pool, i) /\ answered' \in {answered, answered \cup {pool[i]}}
      /\ UNCHANGED <<known, manual, hidden, dropped, cands>>
  BY DEF Try
<1>3. /\ pool' \in Seq(Peers) /\ IsInjective(RemoveAt(pool, i))
      /\ ToSet(RemoveAt(pool, i)) \subseteq ToSet(pool) /\ pool[i] \notin ToSet(RemoveAt(pool, i))
      /\ pool[i] \in ToSet(pool) /\ pool[i] \in Peers
  BY <1>1, <1>2, TakenOut
<1>4. IsInjective(pool') /\ ToSet(pool') \subseteq ToSet(pool) /\ pool[i] \notin ToSet(pool')
  BY <1>2, <1>3
<1>5. PoolOK'
  BY <1>1, <1>2, <1>3, <1>4 DEF PoolOK
<1>6. Contacts'
  BY <1>2, <1>3 DEF Sets, Contacts
<1>. QED  BY <1>5, <1>6 DEF Sets

LEMMA PresenceStep ==
  ASSUME PresenceInv, [PNext]_pvars
  PROVE  PresenceInv'
<1>1. Sets /\ Clocks
  BY DEF PresenceInv, Sets
<1>2. Clocks'
  BY <1>1, ClocksStep
<1>3. Sets'
  <2>1. CASE Contact
    BY <1>1, <2>1, ContactStep, SweepStep DEF Contact
  <2>2. CASE User
    BY <1>1, <2>2, AddedStep, DeletedStep DEF User
  <2>3. CASE Probe
    BY <1>1, <2>3, SweepStep, SubmittedStep, ContactStep, TriedStep DEF Probe
  <2>4. CASE Reap \/ Tick \/ UNCHANGED pvars
    BY <1>1, <2>4, SweepStep
  <2>. QED  BY <2>1, <2>2, <2>3, <2>4 DEF PNext
<1>. QED  BY <1>2, <1>3 DEF PresenceInv, Sets

LEMMA PresenceHolds == PSpec => []PresenceInv
<1>1. PInit => PresenceInv
  BY PresenceStarts
<1>2. PresenceInv /\ [PNext]_pvars => PresenceInv'
  BY PresenceStep
<1>. QED  BY <1>1, <1>2, PTL DEF PSpec

\* The roster is well formed: a manual peer is known, a peer is in the pool once
\* and never while its probe is about to touch it.
THEOREM PresenceTypeCorrect == PSpec => []PresenceTypeOK
<1>1. PresenceInv => PresenceTypeOK
  BY PresenceParts DEF PresenceInv
<1>. QED  BY <1>1, PresenceHolds, PTL

-----------------------------------------------------------------------------
(* Presence: the status.                                                   *)

\* Who is gone has aged since, unless it is as old as it can be; a probe that
\* still has to touch it connected before.
Aged ==
  \A p \in Peers : mode[p] = "off" =>
    /\ age[p] >= steady[p] \/ age[p] = Old
    /\ p \in answered => steady[p] = 0

LEMMA AgedStep ==
  ASSUME PresenceInv, Aged, [PNext]_pvars
  PROVE  Aged'
<1>. USE PresenceConstants
<1>0. /\ mode \in [Peers -> Modes] /\ age \in [Peers -> 0..Old] /\ steady \in [Peers -> 0..Patience]
      /\ Old \in Nat /\ Patience \in Nat
  BY DEF PresenceInv, Clocks, Old, Patience
<1>. SUFFICES ASSUME NEW q \in Peers, mode'[q] = "off"
              PROVE  /\ age'[q] >= steady'[q] \/ age'[q] = Old
                     /\ q \in answered' => steady'[q] = 0
  BY DEF Aged
<1>1. /\ age[q] \in 0..Old /\ steady[q] \in 0..Patience
      /\ mode[q] = "off" => (age[q] >= steady[q] \/ age[q] = Old) /\ (q \in answered => steady[q] = 0)
  BY <1>0 DEF Aged
<1>2. ASSUME mode'[q] = mode[q], age'[q] = age[q], steady'[q] = steady[q], q \in answered' => q \in answered
      PROVE  /\ age'[q] >= steady'[q] \/ age'[q] = Old
             /\ q \in answered' => steady'[q] = 0
  BY <1>1, <1>2
<1>3. ASSUME age'[q] \in 0..Old, steady'[q] = 0
      PROVE  /\ age'[q] >= steady'[q] \/ age'[q] = Old
             /\ q \in answered' => steady'[q] = 0
  BY <1>3
<1>4. ASSUME NEW p \in Peers, Message(p) \/ Beacon(p)
      PROVE  /\ age'[q] >= steady'[q] \/ age'[q] = Old
             /\ q \in answered' => steady'[q] = 0
  <2>1. mode' = mode /\ steady' = steady /\ answered' = answered /\ mode[p] # "off"
        /\ (age' = age \/ age' = [age EXCEPT ![p] = 0])
    BY <1>4 DEF Message, Beacon, Touch
  <2>2. q # p
    BY <2>1
  <2>3. age'[q] = age[q]
    BY <1>0, <2>1, <2>2
  <2>. QED  BY <1>2, <2>1, <2>3
<1>5. ASSUME NEW p \in Peers, NEW m \in Modes, PeerTurns(p, m)
      PROVE  /\ age'[q] >= steady'[q] \/ age'[q] = Old
             /\ q \in answered' => steady'[q] = 0
  <2>1. mode' = [mode EXCEPT ![p] = m] /\ age' = age /\ answered' = answered
        /\ steady' = IF "off" \in {m, mode[p]} THEN [steady EXCEPT ![p] = 0] ELSE steady
    BY <1>5 DEF PeerTurns
  <2>2. CASE q = p
    BY <1>0, <1>1, <1>3, <2>1, <2>2
  <2>3. CASE q # p
    BY <1>0, <1>2, <2>1, <2>3
  <2>. QED  BY <2>2, <2>3
<1>6. ASSUME NEW p \in Peers, Connect(p) \/ GroupMember(p)
      PROVE  /\ age'[q] >= steady'[q] \/ age'[q] = Old
             /\ q \in answered' => steady'[q] = 0
  <2>1. /\ mode' = mode /\ answered' = answered
        /\ age' = IF p \in known THEN age ELSE [age EXCEPT ![p] = Old]
        /\ steady' = IF p \in known THEN steady ELSE [steady EXCEPT ![p] = 0]
    BY <1>6 DEF Connect, GroupMember, AddManual
  <2>2. CASE p \in known \/ q # p
    BY <1>0, <1>2, <2>1, <2>2
  <2>3. CASE p \notin known /\ q = p
    BY <1>0, <1>3, <2>1, <2>3
  <2>. QED  BY <2>2, <2>3
<1>7. ASSUME NEW p \in Peers, ProbeTouches(p)
      PROVE  /\ age'[q] >= steady'[q] \/ age'[q] = Old
             /\ q \in answered' => steady'[q] = 0
  <2>1. /\ mode' = mode /\ steady' = steady /\ answered' = answered \ {p} /\ p \in answered
        /\ age' = [age EXCEPT ![p] = 0]
    BY <1>7 DEF ProbeTouches, Touch
  <2>2. CASE q = p
    <3>1. steady'[q] = 0 /\ age'[q] \in 0..Old
      BY <1>0, <1>1, <2>1, <2>2
    <3>. QED  BY <1>3, <3>1
  <2>3. CASE q # p
    BY <1>0, <1>2, <2>1, <2>3
  <2>. QED  BY <2>2, <2>3
<1>8. ASSUME NEW i \in DOMAIN pool, Try(i)
      PROVE  /\ age'[q] >= steady'[q] \/ age'[q] = Old
             /\ q \in answered' => steady'[q] = 0
  <2>1. /\ mode' = mode /\ steady' = steady /\ age' = age
        /\ answered' = IF mode[pool[i]] = "off" THEN answered ELSE answered \cup {pool[i]}
    BY <1>8 DEF Try
  <2>2. q \in answered' => q \in answered
    BY <2>1
  <2>. QED  BY <1>2, <2>1, <2>2
<1>9. ASSUME Tick
      PROVE  /\ age'[q] >= steady'[q] \/ age'[q] = Old
             /\ q \in answered' => steady'[q] = 0
  <2>1. /\ mode' = mode /\ answered' = answered /\ answered = {}
        /\ age'[q] = Longer(age[q], Old) /\ steady'[q] = Longer(steady[q], Patience)
    BY <1>9 DEF Tick
  <2>. QED  BY <1>0, <1>1, <2>1 DEF Longer
<1>10. CASE Reap \/ Look \/ UNCHANGED pvars \/ \E p \in Peers : SweepSubmits(p) \/ Delete(p)
  <2>1. mode' = mode /\ age' = age /\ steady' = steady /\ answered' = answered
    BY <1>10 DEF Reap, Look, pvars, SweepSubmits, Delete
  <2>. QED  BY <1>2, <2>1
<1>. QED  BY <1>4, <1>5, <1>6, <1>7, <1>8, <1>9, <1>10 DEF PNext, Contact, User, Probe

LEMMA AgedHolds == PSpec => [](PresenceInv /\ Aged)
<1>1. PInit => Aged
  <2>1. PInit => \A p \in Peers : age[p] = Old
    BY DEF PInit
  <2>. QED  BY <2>1 DEF PInit, Aged
<1>2. PresenceInv /\ Aged /\ [PNext]_pvars => Aged'
  BY AgedStep
<1>. QED  BY <1>1, <1>2, PresenceHolds, PTL DEF PSpec

\* A peer whose program ended reads as offline once the timeout has passed: a
\* probe that connected before it went can touch it only in the unit in which it
\* went, whatever the size of the pool.
THEOREM WhoLeftIsOffline == PSpec => []GoneIsOffline
<1>1. PresenceInv /\ Aged => GoneIsOffline
  <2>. SUFFICES ASSUME PresenceInv, Aged, NEW p \in known, mode[p] = "off", steady[p] > Timeout
                PROVE  ~Online(p)
    BY DEF GoneIsOffline
  <2>1. p \in Peers /\ age[p] \in 0..Old /\ steady[p] \in 0..Patience
    BY DEF PresenceInv, Contacts, Clocks
  <2>2. age[p] >= steady[p] \/ age[p] = Old
    BY <2>1 DEF Aged
  <2>3. Timeout < Drop /\ Timeout \in Nat /\ Drop \in Nat
    BY PresenceAssumption
  <2>. QED  BY <2>1, <2>2, <2>3, PresenceConstants DEF Online, Old, Patience
<1>. QED  BY <1>1, AgedHolds, PTL
=============================================================================
