------------------------------ MODULE DualAccess ------------------------------
(***************************************************************************)
(* Dual access: a second, internet address is stacked on the adapter that  *)
(* holds the intranet address, with routes and name rules to match, and    *)
(* what was there before is kept in the registry to be put back, which the *)
(* program never does: its worker raises before it asks for the child.     *)
(*                                                                         *)
(* The settings live in Windows; the program changes them one command at   *)
(* a time from an elevated child process, never looks at a command's       *)
(* result, and outlives or dies before its child.  Commands are refused,   *)
(* approvals are cancelled, two workers run at once, profiles are applied  *)
(* and the machine restarts in between.                                    *)
(***************************************************************************)
EXTENDS Naturals, FiniteSets

CONSTANTS Internets,   \* internet addresses the user may type
          Jobs,        \* workers and commands that can be under way at once
          MaxMishaps,  \* bound on mishaps
          NoIp         \* the empty string where an address is kept

Lan == "lan"         \* the intranet address
Corp == "corp"       \* the corporate name servers
Public == "public"   \* INTERNET_DNS, 8.8.8.8

\* An internet address is none of the addresses that have a name here.
ASSUME DualAssumption ==
  /\ Internets \cap {Lan, Corp, Public, "intranet", NoIp} = {} /\ IsFiniteSet(Internets)
  /\ Jobs # {} /\ MaxMishaps \in Nat

VARIABLES
  adapter,       \* what Windows has for the adapter
  routes,        \* default routes by their internet address, "intranet" (10/8), host routes of name servers
  nrpt,          \* the servers the rules for the corporate domains name
  store,         \* the registry: the active address and the captured setup
  dualActive,    \* MainWindow._dual_active
  routeActive,   \* MainWindow._route_active
  admin,         \* is_admin()
  job,           \* the workers and their elevated children
  before,        \* history: the setup the user has chosen, without dual access
  mishaps        \* history: refused commands, kills, overlaps and profiles on top, up to MaxMishaps

vars == <<adapter, routes, nrpt, store, dualActive, routeActive, admin, job, before, mishaps>>
window == <<dualActive, routeActive>>

\* A setup of the adapter: how it gets its addresses and servers, and which.
Setups == [mode : {"dhcp", "static"}, addrs : SUBSET (Internets \cup {Lan}),
           dnsMode : {"dhcp", "static"}, dns : SUBSET {Corp, Public}]
Setup(m, a, dm, d) == [mode |-> m, addrs |-> a, dnsMode |-> dm, dns |-> d]
Automatic == Setup("dhcp", {Lan}, "dhcp", {Corp})
Manual(a) == Setup("static", {a}, "static", {Corp})

\* What the child does next (_do_enable).
After == [static |-> "drop", drop |-> "bind", bind |-> "routes", routes |-> "names", names |-> "verify"]
Pcs == {"none", "approve", "raising", "verify"} \cup DOMAIN After
\* A job: where it is, its program's life, and the arguments its child was given.
Idle == [kind |-> "none", pc |-> "none", live |-> FALSE, ip |-> NoIp, old |-> NoIp, was |-> Automatic]
JobType == [kind : {"none", "enable", "disable"}, pc : Pcs, live : BOOLEAN,
            ip : Internets \cup {NoIp}, old : Internets \cup {NoIp}, was : Setups]
\* The setups that the profiles of the IP switch may hold.
Profiles == {Automatic} \cup {Manual(a) : a \in Internets \cup {Lan}}
\* What the checks of the addresses and of the routing table see.
Held(ip) == ip \in adapter.addrs
Routed(rs) == rs \subseteq routes

Busy == {j \in Jobs : job[j].pc # "none"}
InChild(j) == job[j].pc \notin {"none", "approve", "raising"}

\* Type invariant.
DualTypeOK ==
  /\ adapter \in Setups
  /\ before \in Setups
  /\ routes \subseteq Internets \cup {"intranet", Corp, Public}
  /\ nrpt \subseteq {Corp, Public}
  /\ store \in [active : Internets \cup {NoIp}, prev : Setups]
  /\ dualActive \in BOOLEAN /\ routeActive \in BOOLEAN /\ admin \in BOOLEAN
  /\ job \in [Jobs -> JobType]
  /\ mishaps \in 0..MaxMishaps

DInit ==
  /\ adapter \in {Automatic, Manual(Lan)}
  /\ before = adapter
  /\ routes \in {{}, {"intranet"}}
  /\ nrpt = {}
  /\ store = [active |-> NoIp, prev |-> Automatic]
  /\ dualActive = FALSE
  /\ routeActive = ("intranet" \in routes)
  /\ admin \in BOOLEAN
  /\ job = [j \in Jobs |-> Idle]
  /\ mishaps = 0

\* A step on which, if it is a mishap, nothing is promised any more.
Mishap(happens) ==
  /\ happens => mishaps < MaxMishaps
  /\ mishaps' = mishaps + (IF happens THEN 1 ELSE 0)

-----------------------------------------------------------------------------
(* The window: the status check and the button.                            *)

\* The background check looks whether the active address, or the one in the
\* field when none is active, is bound.  It posts what it saw from a plain
\* thread: the window takes it or, for want of an event loop there, never does.
CheckStatus(delivered) ==
  /\ \E ip \in IF store.active # NoIp THEN {store.active} ELSE Internets :
       dualActive' = IF delivered THEN Held(ip) ELSE dualActive
  /\ UNCHANGED <<adapter, routes, nrpt, store, routeActive, admin, job, before, mishaps>>

\* A worker is given an empty slot; one that joins another is an overlap.
Launch(j, r) ==
  /\ job[j].pc = "none"
  /\ job' = [job EXCEPT ![j] = r]
  /\ Mishap(Busy # {})

\* Mutant: the setup is captured on every enable.
CaptureAlways(ip) == store' = [store EXCEPT !.prev = [adapter EXCEPT !.addrs = {Lan}]]
\* What the adapter has now is kept, unless an address of ours is active.
Capture(ip) ==
  store' = IF store.active = NoIp THEN [store EXCEPT !.prev = [adapter EXCEPT !.addrs = {Lan}]]
                                  ELSE store

\* Enable: the adapter that holds the intranet address is found, its setup is
\* captured and the child is asked for; the elevated program stumbles on args.
StartEnable(j, ip) ==
  /\ ~dualActive
  /\ Held(Lan)
  /\ Capture(ip)
  /\ Launch(j, [kind |-> "enable", pc |-> IF admin THEN "raising" ELSE "approve", live |-> TRUE,
                ip |-> ip, old |-> store.active, was |-> adapter])
  /\ UNCHANGED <<adapter, routes, nrpt, dualActive, routeActive, admin, before>>

\* Disable: load_dual_prev_ip returns nothing, so the worker is about to raise.
StartDisable(j, ip) ==
  /\ dualActive
  /\ Held(Lan)
  /\ Launch(j, [Idle EXCEPT !.kind = "disable", !.pc = "raising", !.live = TRUE,
                            !.ip = IF store.active # NoIp THEN store.active ELSE ip])
  /\ UNCHANGED <<adapter, routes, nrpt, store, dualActive, routeActive, admin, before>>

\* The worker's thread ends with the exception; nobody is told.
Raise(j) ==
  /\ job[j].pc = "raising"
  /\ job' = [job EXCEPT ![j] = Idle]
  /\ UNCHANGED <<adapter, routes, nrpt, store, window, admin, before, mishaps>>

\* The approval of the elevated child is given or cancelled.
Approve(j) ==
  /\ job[j].pc = "approve"
  /\ \/ job' = [job EXCEPT ![j].pc = "static"]
     \/ job' = [job EXCEPT ![j] = Idle]
  /\ UNCHANGED <<adapter, routes, nrpt, store, window, admin, before, mishaps>>

-----------------------------------------------------------------------------
(* The elevated child.  A command is carried out or refused; either way the *)
(* next one follows.                                                        *)

Proceed(j) == job' = [job EXCEPT ![j].pc = After[@]]
Windows(done) == Mishap(~done)

\* The adapter is made static with the address it has, so that adding another
\* address does not cost the intranet one.
ToStatic(j, done) ==
  /\ job[j].pc = "static"
  /\ done \/ job[j].was.mode = "dhcp"
  /\ adapter' = IF done /\ job[j].was.mode = "dhcp"
                THEN [adapter EXCEPT !.mode = "static", !.addrs = {Lan}] ELSE adapter
  /\ Windows(done) /\ Proceed(j)
  /\ UNCHANGED <<routes, nrpt, store, window, admin, before>>

\* Mutant: the old address stays.
DropNothing(j, done) == job[j].pc = "drop" /\ Windows(TRUE) /\ Proceed(j)
                        /\ UNCHANGED <<adapter, routes, nrpt, store, window, admin, before>>
\* The address bound before, when another is to be bound, goes with its route.
DropOld(j, done) ==
  /\ job[j].pc = "drop"
  /\ LET old == job[j].old  IN
     IF done /\ old # NoIp /\ old # job[j].ip
     THEN /\ adapter' = [adapter EXCEPT !.addrs = @ \ {old}]
          /\ routes' = routes \ {old}
     ELSE UNCHANGED <<adapter, routes>>
  /\ Windows(done) /\ Proceed(j)
  /\ UNCHANGED <<nrpt, store, window, admin, before>>

\* Mutant: the address of the last time is bound.
BindOld(j, done) ==
  /\ job[j].pc = "bind"
  /\ adapter' = [adapter EXCEPT !.mode = "static", !.addrs = @ \cup {job[j].old}]
  /\ Windows(done) /\ Proceed(j)
  /\ UNCHANGED <<routes, nrpt, store, window, admin, before>>
\* The internet address is bound; an adapter still on DHCP loses what it had.
Bind(j, done) ==
  /\ job[j].pc = "bind"
  /\ adapter' = IF ~done THEN adapter
                ELSE [adapter EXCEPT !.mode = "static",
                        !.addrs = (IF adapter.mode = "dhcp" THEN {} ELSE @) \cup {job[j].ip}]
  /\ Windows(done) /\ Proceed(j)
  /\ UNCHANGED <<routes, nrpt, store, window, admin, before>>

\* The internet default route, the 10/8 route, and a host route to every
\* server the adapter had, ours included; the first two may be refused.
AddRoutes(j, refused) ==
  /\ job[j].pc = "routes"
  /\ routes' = routes \cup ({job[j].ip, "intranet"} \ refused) \cup job[j].was.dns
  /\ Windows(refused = {}) /\ Proceed(j)
  /\ UNCHANGED <<adapter, nrpt, store, window, admin, before>>

\* The rules of the corporate domains name the servers the adapter had, and
\* the adapter's servers become the public one and then those.
SetNames(j, done) ==
  /\ job[j].pc = "names"
  /\ nrpt' = IF done THEN job[j].was.dns ELSE {}
  /\ adapter' = [adapter EXCEPT !.dnsMode = "static", !.dns = {Public} \cup job[j].was.dns]
  /\ Windows(done) /\ Proceed(j)
  /\ UNCHANGED <<routes, store, window, admin, before>>

\* Mutant: an address that is already active is not replaced by the new one.
VerifyForgets(j) ==
  /\ job[j].pc = "verify"
  /\ store' = IF store.active = NoIp /\ job[j].live THEN [store EXCEPT !.active = job[j].ip] ELSE store
  /\ job' = [job EXCEPT ![j] = Idle]
  /\ UNCHANGED <<adapter, routes, nrpt, window, admin, before, mishaps>>
\* The child looks at the address and the two routes; on success the program,
\* when it still runs, keeps the address as the active one.  A child started
\* through PowerShell, the fallback, is taken for a success in any case.
Verify(j) ==
  /\ job[j].pc = "verify"
  /\ LET held == Held(job[j].ip) /\ Routed({job[j].ip, "intranet"}) IN
     \E zero \in {held, TRUE} :
       store' = IF zero /\ job[j].live THEN [store EXCEPT !.active = job[j].ip] ELSE store
  /\ job' = [job EXCEPT ![j] = Idle]
  /\ UNCHANGED <<adapter, routes, nrpt, window, admin, before, mishaps>>

Child(j) ==
  \/ \E done \in BOOLEAN : ToStatic(j, done) \/ DropOld(j, done) \/ Bind(j, done) \/ SetNames(j, done)
  \/ \E refused \in SUBSET {job[j].ip, "intranet"} : AddRoutes(j, refused)
  \/ Verify(j)

-----------------------------------------------------------------------------
(* The neighbours: profiles, the LAN+NET button, and a program that ends.   *)

\* A profile replaces addresses and servers, whatever dual access has done.
ApplyProfile(p) ==
  /\ adapter' = p
  /\ before' = p
  /\ Mishap(store.active # NoIp \/ Busy # {})
  /\ UNCHANGED <<routes, nrpt, store, window, admin, job>>

AddRoute == routes' = routes \cup {"intranet"}
DelRoute == routes' = routes \ {"intranet"}

\* The LAN+NET button believes its flag, not the routing table; the elevated
\* command may be cancelled or refused.
ToggleRoute ==
  /\ \/ routeActive /\ DelRoute
     \/ ~routeActive /\ Held(Lan) /\ AddRoute
  /\ routeActive' = ~routeActive
  /\ UNCHANGED <<adapter, nrpt, store, dualActive, admin, job, before>>
  /\ Mishap(Busy # {})

\* The program starts anew.  A child that was let go goes on with nobody to
\* keep its address; after a reboot it is gone, and so are the routes that
\* are not persistent.
Restart(reboot) ==
  /\ routes' = IF reboot THEN routes \cap {"intranet"} ELSE routes
  /\ job' = [j \in Jobs |-> IF InChild(j) /\ ~reboot THEN [job[j] EXCEPT !.live = FALSE] ELSE Idle]
  /\ Mishap(\E j \in Jobs : job[j].pc \notin {"none", "approve"})
  /\ routeActive' = Routed({"intranet"})
  /\ dualActive' = FALSE
  /\ UNCHANGED <<adapter, nrpt, store, admin, before>>

DNext ==
  \/ \E delivered \in BOOLEAN : CheckStatus(delivered)
  \/ \E j \in Jobs, ip \in Internets : StartEnable(j, ip) \/ StartDisable(j, ip)
  \/ \E j \in Jobs : Raise(j) \/ Approve(j) \/ Child(j)
  \/ \E p \in Profiles : ApplyProfile(p)
  \/ ToggleRoute
  \/ \E reboot \in BOOLEAN : Restart(reboot)

DSpec == DInit /\ [][DNext]_vars

-----------------------------------------------------------------------------
(* Properties.                                                              *)

\* Enabling again with another address takes the first one away, so that the
\* internet addresses do not stack up on the adapter: at most one is bound,
\* through cancelled approvals, restarts and reboots, as long as
\* Windows refuses nothing, the program outlives its child, and no other
\* command or profile comes on top.
NoStaleAddress == mishaps > 0 \/ Cardinality(adapter.addrs \ {Lan}) <= 1

\* What disabling would need, under the same proviso: however often dual access was
\* enabled, with whatever addresses, cancelled, rebooted and profiles changed before,
\* while an address is active the captured setup is the one the user had chosen,
\* never what an earlier enabling had set ("so a re-enable doesn't overwrite the
\* real previous DNS with our own settings").
CaptureIsTheUsers ==
  mishaps > 0 \/ store.active = NoIp \/ store.prev = [before EXCEPT !.addrs = {Lan}]

\* What mishaps cost: each refused command, program killed under its child, overlap
\* or profile on top leaves at most one address behind that no later enabling takes
\* away.
OneAddressPerMishap == Cardinality(adapter.addrs \ {Lan}) <= 1 + mishaps
=============================================================================
