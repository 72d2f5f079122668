------------------------------- MODULE Rooms -------------------------------
(***************************************************************************)
(* One group or one broadcast channel, replicated without a server: every  *)
(* holder keeps a roster of its own (ChatWindow's _groups and _channels,   *)
(* nst/qt/chat_window.py), and every payload about the room carries its    *)
(* sender's whole roster, with no version.                                 *)
(*                                                                         *)
(* A payload is in flight from the worker that sends it, through the       *)
(* outbox if its peer is away, until the receiver's window handles it;     *)
(* workers and handler threads reach that window in any order.  The        *)
(* creator's roster does not list the creator: _group_meta adds it to what *)
(* is sent.  Texts are left out: a post is its roster.                     *)
(***************************************************************************)
EXTENDS Naturals, FiniteSets

CONSTANTS
  Nodes,      \* our addresses, one user each
  Kinds,      \* what the room may be: "group", "channel"
  Leavers,    \* those whose users may leave the room
  Quitters,   \* those whose program may end with payloads unsent or unhandled
  MaxActs     \* bound: what users do after the room was created

ASSUME RoomsAssumption ==
  /\ Kinds \subseteq {"group", "channel"} /\ Leavers \cup Quitters \subseteq Nodes
  /\ MaxActs \in Nat

VARIABLES
  kind,     \* what this room is
  holders,  \* the nodes that have it
  roster,   \* roster[n]: members and admins as n has them stored
  dialog,   \* dialog[n]: the members n's manage dialog lists for an admin
  net,      \* payloads in flight
  acts,
  crowned   \* history: those who created the room, or whom one of these
            \* promoted or left it to

rvars == <<kind, holders, roster, dialog, net, acts, crowned>>

Roster == [members : SUBSET Nodes, admins : SUBSET Nodes]
Nobody == [members |-> {}, admins |-> {}]

\* "act" tells payloads of the same content apart.
Payload == [type : {"roster", "kick"}, from : Nodes, to : Nodes, says : Roster, act : 0..MaxActs]

RoomsTypeOK ==
  /\ kind \in Kinds /\ holders \subseteq Nodes
  /\ roster \in [Nodes -> Roster]
  /\ dialog \in [Nodes -> SUBSET Nodes]
  /\ net \subseteq Payload
  /\ \A m \in net : m.from # m.to /\ (m.type = "roster" => m.to \in m.says.members)
  /\ acts \in 0..MaxActs /\ crowned \subseteq Nodes

RInit ==
  /\ kind \in Kinds /\ holders = {}
  /\ roster = [n \in Nodes |-> Nobody]
  /\ dialog = [n \in Nodes |-> {}]
  /\ net = {} /\ acts = 0 /\ crowned = {}

-----------------------------------------------------------------------------
\* _group_meta, _channel_meta: the roster as n sends and uses it.
Meta(n, r) ==
  LET members == r.members \cup {n} IN
  [members |-> members,
   admins  |-> IF r.admins \cap members = {} THEN {n} ELSE r.admins \cap members]

IsAdmin(n) == n \in holders /\ n \in Meta(n, roster[n]).admins

\* Mutant: my own address is in the list like any other.
FanToAll(n, says) ==
  {[type |-> "roster", from |-> n, to |-> p, says |-> says, act |-> acts'] : p \in says.members}

\* send_group, send_channel: one payload for every other member.
Fan(n, says) ==
  {[type |-> "roster", from |-> n, to |-> p, says |-> says, act |-> acts'] :
     p \in says.members \ {n}}

Kick(n, p) == [type |-> "kick", from |-> n, to |-> p, says |-> Nobody, act |-> acts']

\* Mutant: whoever is left is not looked at.
EnsuredNot(members, admins) == {admins \cap members}

\* _ensure_group_admin: the first member takes over; the order of a list is
\* not part of the model.
Ensured(members, admins) ==
  IF admins \cap members = {} /\ members # {}
  THEN {{m} : m \in members}
  ELSE {admins \cap members}

-----------------------------------------------------------------------------
(* The users.                                                              *)

Act == acts < MaxActs /\ acts' = acts + 1

Change(n, r) ==
  /\ roster' = [roster EXCEPT ![n] = r]
  /\ net' = net \cup Fan(n, Meta(n, r))
  /\ dialog' = [dialog EXCEPT ![n] = IF @ = {} THEN {} ELSE Meta(n, r).members]
  /\ UNCHANGED <<kind, holders>>

\* _new_group_dialog: a group needs somebody in it; a channel need not have.
CreateGroup(members) == kind = "group" /\ members # {}
CreateChannel(members) == kind = "channel"

Create(n, members) ==
  /\ acts = 0 /\ holders = {}
  /\ CreateGroup(members) \/ CreateChannel(members)
  /\ UNCHANGED <<kind, dialog, acts>>
  /\ holders' = {n}
  /\ roster' = [roster EXCEPT ![n] = [members |-> members, admins |-> {n}]]
  /\ net' = Fan(n, Meta(n, roster'[n]))

\* A text, or from the dialog a new name: only the others learn something.
Post(n) ==
  /\ Act
  /\ n \in holders /\ (dialog[n] # {} \/ kind = "group" \/ IsAdmin(n))
  /\ Change(n, roster[n])

\* _manage_group_dialog, _manage_channel_dialog, and the header's list of
\* candidates: whether I am an admin is asked when it opens, never again.
Manage(n) ==
  /\ IsAdmin(n) /\ dialog[n] = {}
  /\ dialog' = [dialog EXCEPT ![n] = Meta(n, roster[n]).members]
  /\ UNCHANGED <<kind, holders, roster, net, acts>>

CloseDialog(n) ==
  /\ dialog[n] # {}
  /\ dialog' = [dialog EXCEPT ![n] = {}]
  /\ UNCHANGED <<kind, holders, roster, net, acts>>

\* _member_dialog offers who is not in the roster.
Candidates(n) == Nodes \ Meta(n, roster[n]).members

\* Only a channel's list asks again whether I am an admin.  It asks when it
\* opens; that and the choice from it are one step here.
AddGroupMembers(n) == kind = "group"
AddChannelMembers(n) == kind = "channel" /\ IsAdmin(n)

AddMember(n, p) ==
  /\ Act
  /\ n \in holders /\ dialog[n] # {} /\ p \in Candidates(n)
  /\ AddGroupMembers(n) \/ AddChannelMembers(n)
  /\ Change(n, [roster[n] EXCEPT !.members = @ \cup {p}])

\* A group left without an admin goes to a member, a channel stays mine.
GroupSetAdmin(n, admins) ==
  /\ kind = "group"
  /\ \E a \in Ensured(roster[n].members, admins) : Change(n, [roster[n] EXCEPT !.admins = a])
ChannelSetAdmin(n, admins) ==
  /\ kind = "channel"
  /\ Change(n, [roster[n] EXCEPT !.admins = IF admins = {} THEN {n} ELSE admins])

SetAdmin(n, p, make) ==
  /\ Act
  /\ n \in holders /\ p \in dialog[n]
  /\ LET admins == IF make THEN roster[n].admins \cup {p} ELSE roster[n].admins \ {p} IN
     GroupSetAdmin(n, admins) \/ ChannelSetAdmin(n, admins)

\* Only a group tells the member.
GroupRemoves(n, p, r) ==
  /\ kind = "group"
  /\ \E a \in Ensured(r.members, r.admins) :
       /\ roster' = [roster EXCEPT ![n] = [r EXCEPT !.admins = a]]
       /\ net' = net \cup Fan(n, Meta(n, roster'[n])) \cup {Kick(n, p)}
ChannelRemoves(n, r) ==
  /\ kind = "channel"
  /\ roster' = [roster EXCEPT ![n] = r]
  /\ net' = net \cup Fan(n, Meta(n, r))

RemoveMember(n, p) ==
  /\ Act
  /\ n \in holders /\ p \in dialog[n] \ {n}
  /\ LET r == [members |-> roster[n].members \ {p}, admins |-> roster[n].admins \ {p}] IN
     GroupRemoves(n, p, r) \/ ChannelRemoves(n, r)
  /\ dialog' = [dialog EXCEPT ![n] = Meta(n, roster'[n]).members]
  /\ UNCHANGED <<kind, holders>>

Forget(n) ==
  /\ holders' = holders \ {n}
  /\ roster' = [roster EXCEPT ![n] = Nobody]

\* _delete_group hands the group over; _delete_channel tells nobody.
DeleteGroup(n) ==
  /\ kind = "group"
  /\ LET meta   == Meta(n, roster[n])
         others == meta.members \ {n} IN
     \E a \in Ensured(others, meta.admins \ {n}) :
       net' = net \cup Fan(n, [members |-> others, admins |-> a])
DeleteChannel(n) == kind = "channel" /\ UNCHANGED net

Leave(n) ==
  /\ Act
  /\ n \in holders \cap Leavers
  /\ DeleteGroup(n) \/ DeleteChannel(n)
  /\ Forget(n)
  /\ dialog' = [dialog EXCEPT ![n] = {}]
  /\ UNCHANGED kind

\* Queues live in memory, rosters are in the history: what n has not sent or
\* not handled yet may be lost.
Quit(n) ==
  /\ Act
  /\ n \in Quitters
  /\ \E lost \in SUBSET {m \in net : n \in {m.from, m.to}} : net' = net \ lost
  /\ dialog' = [dialog EXCEPT ![n] = {}]
  /\ UNCHANGED <<kind, holders, roster>>

-----------------------------------------------------------------------------
(* The receiver's window.                                                  *)

\* The first payload of a room is trusted: this is how being added works.
Join(m) ==
  /\ m.type = "roster" /\ m.to \notin holders
  /\ holders' = holders \cup {m.to}
  /\ roster' = [roster EXCEPT ![m.to] = m.says]

\* on_group_message, on_channel_message: strangers are dropped, and only an
\* admin's roster replaces ours.
Learn(m) ==
  /\ m.type = "roster" /\ m.to \in holders
  /\ LET mine == roster[m.to] IN
     roster' = IF m.from \in mine.members \cap mine.admins
               THEN [roster EXCEPT ![m.to] =
                       [m.says EXCEPT !.admins = IF @ = {} THEN mine.admins ELSE @]]
               ELSE roster
  /\ UNCHANGED holders

\* on_group_kicked, whoever sends it.
Kicked(m) == m.type = "kick" /\ Forget(m.to)

Handle(m) ==
  /\ net' = net \ {m}
  /\ Join(m) \/ Learn(m) \/ Kicked(m)
  /\ UNCHANGED <<kind, dialog, acts>>

-----------------------------------------------------------------------------
RStep ==
  \/ \E n \in Nodes :
       \/ \E S \in SUBSET (Nodes \ {n}) : Create(n, S)
       \/ Post(n) \/ Manage(n) \/ CloseDialog(n) \/ Leave(n) \/ Quit(n)
       \/ \E p \in Nodes : \/ AddMember(n, p) \/ RemoveMember(n, p)
                           \/ \E make \in BOOLEAN : SetAdmin(n, p, make)
  \/ \E m \in net : Handle(m)

Remember ==
  crowned' = IF holders = {} /\ acts = 0 THEN holders'
             ELSE crowned \cup UNION {m.says.admins : m \in {x \in net' \ net : x.from \in crowned}}

RNext == RStep /\ Remember

RSpec == RInit /\ [][RNext]_rvars

-----------------------------------------------------------------------------
\* README, "Groups": admins promote others, and a group without one goes to the
\* next member: who manages the room, or is sent round as its admin, has it from
\* the creator by way of other admins; _group_meta's fallback crowns nobody.
AuthorityIsHandedDown ==
  /\ \A n \in holders : IsAdmin(n) => n \in crowned
  /\ \A m \in net : m.says.admins \subseteq crowned

\* update.md, "Groups must never exist without an admin": once every payload
\* has been handled, one of those who have the group is an admin of it.
NeverAdminless ==
  kind = "group" /\ net = {} /\ holders # {} => \E n \in holders : IsAdmin(n)
=============================================================================
