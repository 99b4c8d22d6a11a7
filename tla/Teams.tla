-------------------------------- MODULE Teams --------------------------------
(***************************************************************************)
(* Who may do what, and where (bot/middleware/tenancy.py,                  *)
(* bot/handlers/registration.py, admin.py and platform.py,                 *)
(* db/repo/tenancy.py).  Every update is resolved to a team and a seat,    *)
(* from a cache when it can be; the handler then runs with what was read,  *)
(* beside other handlers that change teams, seats, chats and keys.  A      *)
(* member of a private chat that is bound to no team speaks for the one    *)
(* team the chat can mean.                                                 *)
(***************************************************************************)
EXTENDS Naturals, FiniteSets

CONSTANTS
    Users,         \* each with a private chat of the same name
    Groups,
    Names,         \* teams that may be made: numbers, in the order they are
    Handlers,      \* updates in progress at once
    TTL,           \* TENANT_CACHE_TTL_S, in ticks
    MaxOps,        \* bound on ops
    None

TeamsAssumption ==
    /\ {TTL, MaxOps} \subseteq Nat \ {0} /\ Names \subseteq Nat
    /\ None \notin Users \cup Groups \cup Names /\ Users \cap Groups = {}
    /\ IsFiniteSet(Users) /\ IsFiniteSet(Groups) /\ IsFiniteSet(Handlers)

VARIABLES
    team,          \* tenants: [status, key]
    seat,          \* tenant_members: role by team and user
    chat,          \* tenant_chats: the team of a chat
    primary,       \* tenant_chats.is_primary: the chat each team's notices go to
    code,          \* enrollment_tokens: the state of the last code a team gave a user
    cache,         \* TenantMiddleware._cache: resolution by chat and user
    task,          \* handlers in progress: [pc, user, chat, ctx, subject, prime]
    settled,       \* ticks since a row changed
    minted,        \* codes each team was given
    ops            \* commands given that may change a row

vars == <<team, seat, chat, primary, code, cache, task, settled, minted, ops>>
rows == <<team, seat, chat, primary, code>>

Chats == Users \cup Groups
Private(c) == c \in Users

\* TenantRow: what a team is told apart by.
Unmade == [status |-> "none", key |-> FALSE]
NoCodes == [u \in Users |-> "none"]
Nobody == [pc |-> "idle", user |-> None, chat |-> None, ctx |-> None, subject |-> None, prime |-> FALSE]
Asking(pc, u, c, ctx) == [Nobody EXCEPT !.pc = pc, !.user = u, !.chat = c, !.ctx = ctx]
Deleted == [status |-> "deleted", key |-> FALSE]
Made(t) == team[t].status \notin {"none", "deleted"}

----------------------------------------------------------------------------
(* Resolution.                                                             *)

\* _sole_membership_binding: ownership wins ties; a real tie is refused.
SoleTeam(u) ==
    LET seated == {t \in Names : seat[t][u] # "none"}
        owned == {t \in seated : seat[t][u] = "owner"}
        candidates == IF owned = {} THEN seated ELSE owned
    IN  IF Cardinality(candidates) = 1 THEN CHOOSE t \in candidates : TRUE ELSE None

\* chat_for, and for a private chat without a row, the sender's own membership.
Binding(u, c) == IF chat[c] = None /\ Private(c) THEN SoleTeam(u) ELSE chat[c]

\* _resolve: the chat decides the team, membership decides the person.
Resolved(u, c) ==
    LET t == Binding(u, c) IN
    IF t = None \/ (t # None /\ seat[t][u] = "none") THEN None
    ELSE [team |-> t, role |-> seat[t][u], status |-> team[t].status, key |-> team[t].key]

\* Mutant: an entry is used for as long as it lies there.
FreshForever(e) == e # None

\* _resolve's first test.
Fresh(e) == e # None /\ (e # None => e.age < TTL)

Without(e) == [team |-> e.team, role |-> e.role, status |-> e.status, key |-> e.key]
Aged(ctx, n) == [team |-> ctx.team, role |-> ctx.role, status |-> ctx.status, key |-> ctx.key, age |-> n]

Idle(h) == task[h].pc = "idle"
At(h, pc) == task[h].pc = pc

\* TenantContext, as the handler of this update was given it.
Ctx(h) == task[h].ctx
IsOwner(h) == Ctx(h) # None /\ Ctx(h).role \in {"owner", "admin"}
End(h) == task' = [task EXCEPT ![h] = Nobody]

\* An update is taken up: from the cache, if what lies there is young enough.
Recall(h) ==
    /\ Idle(h) /\ ops < MaxOps
    /\ \E u \in Users, c \in Chats :
         /\ Private(c) => c = u
         /\ Fresh(cache[<<c, u>>])
         /\ task' = [task EXCEPT ![h] = Asking("act", u, c, Without(cache[<<c, u>>]))]
    /\ UNCHANGED <<rows, cache, settled, minted, ops>>

LookUp(h) ==
    /\ Idle(h) /\ ops < MaxOps
    /\ \E u \in Users, c \in Chats :
         /\ Private(c) => c = u
         /\ ~Fresh(cache[<<c, u>>])
         /\ task' = [task EXCEPT ![h] = Asking("read", u, c, Resolved(u, c))]
    /\ UNCHANGED <<rows, cache, settled, minted, ops>>

\* _remember, some awaits after the rows were read: a row that changed in between is
\* remembered as it was.
Remember(h) ==
    /\ At(h, "read")
    /\ IF Ctx(h) = None THEN UNCHANGED cache
       ELSE cache' = [cache EXCEPT ![<<task[h].chat, task[h].user>>] = Aged(Ctx(h), 0)]
    /\ task' = [task EXCEPT ![h].pc = "act"]
    /\ UNCHANGED <<rows, settled, minted, ops>>

\* A suspended team gets no further, and a command may refuse or change nothing.
Refuse(h) ==
    /\ At(h, "act") /\ End(h)
    /\ UNCHANGED <<rows, cache, settled, minted, ops>>

Acting(h) == At(h, "act") /\ ops < MaxOps /\ (Ctx(h) # None => Ctx(h).status # "suspended")
Mine(h) == Ctx(h).team
Dm(h) == Private(task[h].chat)

\* forget_cached: every resolution of these teams.
Forgotten(ts) == [k \in DOMAIN cache |-> IF cache[k] # None /\ cache[k].team \in ts THEN None ELSE cache[k]]

Counted == ops' = ops + 1
Changed == settled' = 0

----------------------------------------------------------------------------
(* The rows (db/repo/tenancy.py).                                          *)

\* add_member's upsert; create, which seats the first owner with the team's row.
Seated(t, u, role) == [seat EXCEPT ![t][u] = role]
Created(t, u) == team' = [team EXCEPT ![t].status = "pending"] /\ seat' = Seated(t, u, "owner")

\* demote_chat; rebind_chat, where the chat's new row nominates nobody.
Unnominated(c) == [t \in Names |-> IF primary[t] = c THEN None ELSE primary[t]]
Rebound(c, t) == chat' = [chat EXCEPT ![c] = t] /\ primary' = Unnominated(c)

-----------------------------------------------------------------------------
(* Signing up (registration.py).                                           *)

\* /start, unresolved, in a private chat: are there seats?
Start(h) ==
    /\ Acting(h) /\ Ctx(h) = None /\ Dm(h) /\ Counted
    /\ \A t \in Names : seat[t][task[h].user] = "none"
    /\ task' = [task EXCEPT ![h].pc = "create"]
    /\ UNCHANGED <<rows, cache, settled, minted>>

\* _create_team and _claim_dm: a new team, and this chat unless it means another.
CreateTeam(h) ==
    /\ At(h, "create") /\ End(h) /\ Changed
    /\ \E t \in Names :
         /\ team[t] = Unmade /\ \A n \in Names : n < t => team[n] # Unmade
         /\ Created(t, task[h].user)
         /\ IF chat[task[h].chat] = None
            THEN chat' = [chat EXCEPT ![task[h].chat] = t] /\ primary' = [primary EXCEPT ![t] = task[h].chat]
            ELSE UNCHANGED <<chat, primary>>
    /\ UNCHANGED <<code, cache, minted, ops>>

\* /key: the key is checked with its provider before it is stored.
CheckKey(h) ==
    /\ Acting(h) /\ IsOwner(h) /\ Dm(h) /\ Counted
    /\ task' = [task EXCEPT ![h].pc = "key"]
    /\ UNCHANGED <<rows, cache, settled, minted>>

\* set_conductor_key, and set_status when the team was pending as the handler saw it.
StoreKey(h) ==
    /\ At(h, "key") /\ End(h) /\ Changed
    /\ IF Made(Mine(h))
       THEN team' = [team EXCEPT ![Mine(h)] = [status |-> IF Ctx(h).status = "pending" THEN "active" ELSE @.status, key |-> TRUE]]
       ELSE UNCHANGED team
    /\ cache' = Forgotten({Mine(h)})
    /\ UNCHANGED <<seat, chat, primary, code, minted, ops>>

\* /revoke, and deauthorize.
Revoke(h) ==
    /\ Acting(h) /\ IsOwner(h) /\ Made(Mine(h)) /\ Counted /\ End(h) /\ Changed
    /\ team' = [team EXCEPT ![Mine(h)] = [status |-> "pending", key |-> FALSE]]
    /\ cache' = Forgotten({Mine(h)})
    /\ UNCHANGED <<seat, chat, primary, code, minted>>

----------------------------------------------------------------------------
(* Chats.                                                                  *)

\* /team: create_enrollment_token replaces the last one this user was given.
MintCode(h) ==
    /\ Acting(h) /\ IsOwner(h) /\ Dm(h) /\ Made(Mine(h)) /\ Counted /\ End(h)
    /\ code' = [code EXCEPT ![Mine(h)][task[h].user] = "live"]
    /\ minted' = [minted EXCEPT ![Mine(h)] = @ + 1]
    /\ UNCHANGED <<team, seat, chat, primary, cache, settled>>

\* /setup in a group no team has: prove the group first.
Probe(h) ==
    /\ Acting(h) /\ ~Dm(h) /\ chat[task[h].chat] = None
    /\ task' = [task EXCEPT ![h].pc = "redeem"]
    /\ UNCHANGED <<rows, cache, settled, minted, ops>>

\* What is left to do once a code has named the team: bind the group, as its first chat.
ToBind(h, t, prime) == [task EXCEPT ![h] = [@ EXCEPT !.pc = "bind", !.subject = t, !.prime = prime]]

\* Mutant: the code is looked up, and spent by nobody.
RedeemByLooking(h) ==
    /\ At(h, "redeem")
    /\ \E t \in Names : code[t][task[h].user] = "live" /\ task' = ToBind(h, t, TRUE)
    /\ UNCHANGED <<rows, cache, settled, minted, ops>>

\* consume_enrollment_token: one UPDATE that only one caller sees succeed.  A code in
\* someone else's hands is spent all the same.
Redeem(h) ==
    /\ At(h, "redeem")
    /\ \E t \in Names, u \in Users :
         /\ code[t][u] = "live"
         /\ code' = [code EXCEPT ![t][u] = "used"]
         /\ IF u = task[h].user THEN task' = ToBind(h, t, TRUE) ELSE End(h)
    /\ UNCHANGED <<team, seat, chat, primary, cache, settled, minted, ops>>

BadCode(h) ==
    /\ At(h, "redeem") /\ End(h)
    /\ UNCHANGED <<rows, cache, settled, minted, ops>>

\* /setup again, by an owner of the team the group has: it keeps the nomination it has.
SetupAgain(h) ==
    LET t == chat[task[h].chat] IN
    /\ Acting(h) /\ ~Dm(h) /\ t # None /\ IsOwner(h)
    /\ task' = ToBind(h, t, primary[t] = task[h].chat)
    /\ UNCHANGED <<rows, cache, settled, minted, ops>>

\* bind_chat: a chat another team has is refused.
MayBind(c, t) == chat[c] \in {None, t}

BindGroup(h) ==
    LET c == task[h].chat
        t == task[h].subject
    IN
    /\ At(h, "bind") /\ End(h)
    /\ IF MayBind(c, t) /\ Made(t)
       THEN /\ chat' = [chat EXCEPT ![c] = t]
            /\ primary' = [primary EXCEPT ![t] = IF task[h].prime THEN c ELSE IF @ = c THEN None ELSE @]
            /\ Changed
       ELSE UNCHANGED <<chat, primary, settled>>
    /\ UNCHANGED <<team, seat, code, cache, minted, ops>>

\* /use: rebind_chat moves a private chat to another of its owner's teams.
Use(h) ==
    /\ Acting(h) /\ Ctx(h) # None /\ Dm(h) /\ Counted /\ End(h) /\ Changed
    /\ \E t \in Names \ {Mine(h)} :
         /\ Made(t) /\ seat[t][task[h].user] # "none"
         /\ Rebound(task[h].chat, t)
         /\ cache' = Forgotten({Mine(h), t})
    /\ UNCHANGED <<team, seat, code, minted>>

\* demote_chat: a group that cannot be reached is nominated no longer.
Demote ==
    /\ ops < MaxOps /\ Counted
    /\ \E c \in Groups : (\E t \in Names : primary[t] = c) /\ primary' = Unnominated(c)
    /\ UNCHANGED <<team, seat, chat, code, cache, task, settled, minted>>

----------------------------------------------------------------------------
(* Seats (admin.py).                                                       *)

\* list_owner_ids: owners and admins.
OwnerIds(t) == {u \in Users : seat[t][u] \in {"owner", "admin"}}

\* Mutant: the gate of the command is enough.
MaySeatAnyone(t, actor, u) == TRUE

\* add_member's two guards.
MaySeat(t, actor, u) ==
    seat[t][u] = "owner" => seat[t][actor] = "owner" /\ Cardinality(OwnerIds(t)) > 1

\* confirm_member_add: the guards are read, and the row is written after them.
Invite(h) ==
    /\ Acting(h) /\ IsOwner(h) /\ Counted
    /\ \E u \in Users :
         IF MaySeat(Mine(h), task[h].user, u)
         THEN task' = [task EXCEPT ![h] = [@ EXCEPT !.pc = "seat", !.subject = u]]
         ELSE End(h)
    /\ UNCHANGED <<rows, cache, settled, minted>>

Seat(h) ==
    /\ At(h, "seat") /\ End(h) /\ Changed
    /\ \E role \in {"member", "admin"} :
         seat' = IF Made(Mine(h)) THEN Seated(Mine(h), task[h].subject, role) ELSE seat
    /\ cache' = Forgotten({Mine(h)})
    /\ UNCHANGED <<team, chat, primary, code, minted, ops>>

\* remove_member: an owner only by an owner (or by themselves), and never the last.
MayRemove(t, actor, u) ==
    /\ seat[t][u] # "none"
    /\ seat[t][u] = "owner" => /\ actor = u \/ seat[t][actor] = "owner"
                               /\ \E o \in Users \ {u} : seat[t][o] = "owner"

\* /remove and /leave.
Unseat(h) ==
    /\ Acting(h) /\ Ctx(h) # None /\ Counted /\ End(h) /\ Changed
    /\ \E u \in Users :
         /\ u = task[h].user \/ IsOwner(h)
         /\ MayRemove(Mine(h), task[h].user, u)
         /\ seat' = [seat EXCEPT ![Mine(h)][u] = "none"]
    /\ cache' = Forgotten({Mine(h)})
    /\ UNCHANGED <<team, chat, primary, code, minted>>

\* confirm_forget: every table cascades from the team's row.
Forget(h) ==
    LET t == Mine(h) IN
    /\ Acting(h) /\ Ctx(h) # None /\ Ctx(h).role = "owner" /\ Dm(h) /\ Counted /\ End(h) /\ Changed
    /\ team' = [team EXCEPT ![t] = Deleted]
    /\ seat' = [seat EXCEPT ![t] = [u \in Users |-> "none"]]
    /\ chat' = [c \in Chats |-> IF chat[c] = t THEN None ELSE chat[c]]
    /\ primary' = [primary EXCEPT ![t] = None] /\ code' = [code EXCEPT ![t] = NoCodes]
    /\ minted' = [minted EXCEPT ![t] = 0]
    /\ cache' = Forgotten({t})

\* /platform suspend and resume.
Platform ==
    /\ ops < MaxOps /\ Counted /\ Changed
    /\ \E t \in Names, status \in {"suspended", "active"} :
         /\ Made(t) /\ team[t].status # status
         /\ team' = [team EXCEPT ![t].status = status]
         /\ cache' = Forgotten({t})
    /\ UNCHANGED <<seat, chat, primary, code, task, minted>>

----------------------------------------------------------------------------
\* Nothing is read for as long as a tick; a code may lapse.
Tick ==
    /\ \A h \in Handlers : ~At(h, "read")
    /\ settled < TTL /\ settled' = settled + 1
    /\ cache' = [k \in DOMAIN cache |->
          IF cache[k] # None /\ (cache[k] # None => cache[k].age < TTL) THEN [cache[k] EXCEPT !.age = @ + 1] ELSE cache[k]]
    /\ UNCHANGED <<rows, task, minted, ops>>

Lapse ==
    /\ \E t \in Names, u \in Users : code[t][u] = "live" /\ code' = [code EXCEPT ![t][u] = "used"]
    /\ UNCHANGED <<team, seat, chat, primary, cache, task, settled, minted, ops>>

Init ==
    /\ team = [t \in Names |-> Unmade] /\ seat = [t \in Names |-> [u \in Users |-> "none"]]
    /\ chat = [c \in Chats |-> None] /\ primary = [t \in Names |-> None]
    /\ code = [t \in Names |-> NoCodes] /\ cache = [k \in Chats \X Users |-> None]
    /\ task = [h \in Handlers |-> Nobody] /\ settled = 0
    /\ minted = [t \in Names |-> 0] /\ ops = 0

Resolve(h) == Recall(h) \/ LookUp(h) \/ Remember(h) \/ Refuse(h)
SignUp(h) == Start(h) \/ CreateTeam(h) \/ CheckKey(h) \/ StoreKey(h) \/ Revoke(h) \/ Forget(h)
Place(h) == MintCode(h) \/ Probe(h) \/ Redeem(h) \/ BadCode(h) \/ SetupAgain(h) \/ BindGroup(h) \/ Use(h)
Members(h) == Invite(h) \/ Seat(h) \/ Unseat(h)

Next ==
    \/ \E h \in Handlers : Resolve(h) \/ SignUp(h) \/ Place(h) \/ Members(h)
    \/ Demote \/ Platform \/ Tick \/ Lapse

Spec == Init /\ [][Next]_vars

----------------------------------------------------------------------------
(* Properties.                                                             *)

\* Types.
Roles == {"none", "member", "admin", "owner"}
Resolutions ==
    [team : Names, role : Roles, status : {"pending", "active", "suspended"}, key : BOOLEAN]
Entries ==
    [team : Names, role : Roles, status : {"pending", "active", "suspended"}, key : BOOLEAN, age : 0 .. TTL]
TypeOK ==
    /\ team \in [Names -> [status : {"none", "deleted", "pending", "active", "suspended"}, key : BOOLEAN]]
    /\ seat \in [Names -> [Users -> Roles]]
    /\ chat \in [Chats -> Names \cup {None}] /\ primary \in [Names -> Chats \cup {None}]
    /\ code \in [Names -> [Users -> {"none", "live", "used"}]]
    /\ cache \in [Chats \X Users -> Entries \cup {None}]
    /\ task \in [Handlers -> [pc : {"idle", "read", "act", "create", "key", "redeem", "bind", "seat"},
                              user : Users \cup {None}, chat : Chats \cup {None}, ctx : Resolutions \cup {None},
                              subject : Names \cup Users \cup {None}, prime : BOOLEAN]]
    /\ settled \in 0 .. TTL /\ minted \in [Names -> Nat] /\ ops \in 0 .. MaxOps

\* A team's owner loses that seat only to an owner, or with the team: no admin, no
\* member and no stale resolution takes a team from who made it (add_member and
\* remove_member, under handlers that read their guards before they write).
OnlyOwnersTouchOwners ==
    [][\A t \in Names, u \in Users :
          seat[t][u] = "owner" /\ seat'[t][u] # "owner" /\ Made(t)' =>
             \E h \in Handlers : /\ task[h].pc # "idle" /\ task'[h].pc = "idle"
                                 /\ Ctx(h).team = t /\ seat[t][task[h].user] = "owner"]_vars

\* What a handler is told of its team and its seat may be out of date by the cache's
\* lifetime and no more, whichever rows changed while it was being read
\* (_resolve, _remember and forget_cached).
AStaleResolutionIsYoung ==
    [][\A h \in Handlers :
          /\ task[h].pc \in {"idle", "read"} /\ task'[h].pc = "act"
          /\ task'[h].ctx # Resolved(task'[h].user, task'[h].chat)
          => settled < TTL]_vars

\* One code attaches one group, however many setups race for it
\* (consume_enrollment_token, setup).
OneGroupPerCode ==
    \A t \in Names : Cardinality({g \in Groups : chat[g] = t}) <= minted[t]

\* A group stays with the team that has it: two setups, or a setup under a probe that
\* found the group free, never move it (bind_chat).
GroupsStayPut ==
    [][\A g \in Groups : chat[g] # None => chat'[g] = chat[g] \/ team'[chat[g]] = Deleted]_vars

\* "The last owner may not be demoted, not even by themselves": every team has an owner.
TeamKeepsAnOwner == \A t \in Names : Made(t) => \E u \in Users : seat[t][u] = "owner"

=============================================================================
