--------------------------- MODULE ControlsProofs ---------------------------
(***************************************************************************)
(* Who is in command, for any users, groups, teams and updates in flight:  *)
(* a group stays with its team and was paid for with a code, an owner is   *)
(* unseated by an owner only, and what an update is told of its sender is  *)
(* no older than the cache allows.  And the card, for any turns, messages, *)
(* lost calls and deaths: it shows what the machine said, is let go when   *)
(* it carries no Stop, and every other Stop of its topic was paid for.     *)
(***************************************************************************)
EXTENDS MCControls, FiniteSetTheorems, TLAPS

LEMMA TeamSteps == SideBySide => Spec
<1>1. Begin => Init
  BY DEF Begin
<1>2. [Step]_<<world, vars, cardVars>> => [Next]_vars
  BY DEF Step
<1> QED BY <1>1, <1>2, PTL DEF SideBySide, Spec

LEMMA TeamsGiven ==
    /\ TTL \in Nat \ {0} /\ MaxOps \in Nat \ {0} /\ Names \subseteq Nat
    /\ None \notin Users /\ None \notin Groups /\ None \notin Names
    /\ \A u \in Users : u \notin Groups
    /\ IsFiniteSet(Users) /\ IsFiniteSet(Groups) /\ IsFiniteSet(Handlers)
BY ConstantsFit DEF TeamsAssumption

(* The invariant.  Rows: whoever has a seat has it in a team that is, only *)
(* such a team has groups and codes, and a team has one owner.             *)
Rooted ==
    /\ \A t \in Names, u \in Users : seat[t][u] # "none" => Made(t)
    /\ \A t \in Names, g \in Groups : chat[g] = t => Made(t)
    /\ \A t \in Names, u \in Users : code[t][u] = "live" => Made(t)
    /\ \A t \in Names, u, v \in Users : seat[t][u] = "owner" /\ seat[t][v] = "owner" => u = v

(* Updates: what a handler has been told of was a team once, and what it   *)
(* has been asked for, it was asked where that can be asked.               *)
Told(ctx) == ctx # None => team[ctx.team].status # "none"

Tasked ==
    /\ \A k \in Chats \X Users : Told(cache[k])
    /\ \A h \in Handlers :
          /\ Told(Ctx(h))
          /\ ~Idle(h) => task[h].user \in Users /\ task[h].chat \in Chats
          /\ task[h].pc \in {"key", "seat"} => Ctx(h) # None
          /\ At(h, "create") => Dm(h)
          /\ task[h].pc \in {"redeem", "bind"} => ~Dm(h)
          /\ At(h, "bind") => task[h].subject \in Names /\ team[task[h].subject].status # "none"
          /\ At(h, "seat") => task[h].subject \in Users

(* A handler that is about to seat its own team's owner anew is that owner. *)
OwnersHold ==
    \A h \in Handlers :
        At(h, "seat") /\ seat[Mine(h)][task[h].subject] = "owner" => task[h].user = task[h].subject

(* Whatever has lain unchanged for longer than a resolution is old is as   *)
(* that resolution says.                                                   *)
Young ==
    /\ \A c \in Chats, u \in Users : LET e == cache[<<c, u>>] IN
          e # None /\ settled > e.age => Without(e) = Resolved(u, c)
    /\ \A h \in Handlers, c \in Chats, u \in Users :
          At(h, "read") /\ task[h].user = u /\ task[h].chat = c /\ settled > 0 => Ctx(h) = Resolved(u, c)

(* Every group a team has, every handler about to give it one, and every   *)
(* code still to be redeemed was paid for with a code.                     *)
GroupsOf(t) == {g \in Groups : chat[g] = t}
Binders(t) == {h \in Handlers : At(h, "bind") /\ task[h].subject = t /\ chat[task[h].chat] # t}
LiveOf(t) == {u \in Users : code[t][u] = "live"}

Paid ==
    \A t \in Names : Made(t) =>
        Cardinality(GroupsOf(t)) + Cardinality(Binders(t)) + Cardinality(LiveOf(t)) <= minted[t]

Governed == TypeOK /\ Rooted /\ Tasked /\ OwnersHold /\ Young /\ Paid

-----------------------------------------------------------------------------
(* What a handler does, field by field.                                    *)
Places == {"idle", "read", "act", "create", "key", "redeem", "bind", "seat"}
Update == [pc : Places, user : Users \cup {None}, chat : Chats \cup {None}, ctx : Resolutions \cup {None},
           subject : Names \cup Users \cup {None}, prime : BOOLEAN]
TeamRow == [status : {"none", "deleted", "pending", "active", "suspended"}, key : BOOLEAN]

LEMMA Types ==
    TypeOK <=>
    /\ team \in [Names -> TeamRow]
    /\ seat \in [Names -> [Users -> Roles]]
    /\ chat \in [Chats -> Names \cup {None}] /\ primary \in [Names -> Chats \cup {None}]
    /\ code \in [Names -> [Users -> {"none", "live", "used"}]]
    /\ cache \in [Chats \X Users -> Entries \cup {None}]
    /\ task \in [Handlers -> Update]
    /\ settled \in 0 .. TTL /\ minted \in [Names -> Nat] /\ ops \in 0 .. MaxOps
BY DEF TypeOK, Update, Places, TeamRow

\* A handler ends, or goes to another place with what it has.
LEMMA Ends ==
    ASSUME TypeOK, NEW h \in Handlers, End(h)
    PROVE  /\ task' \in [Handlers -> Update]
           /\ task'[h] = Nobody /\ \A g \in Handlers \ {h} : task'[g] = task[g]
<1>1. Nobody \in Update
  BY DEF Nobody, Update, Places
<1> QED BY <1>1, Types DEF End

LEMMA GoesTo ==
    ASSUME TypeOK, NEW h \in Handlers, NEW pc \in Places, task' = [task EXCEPT ![h].pc = pc]
    PROVE  /\ task' \in [Handlers -> Update]
           /\ task'[h] = [task[h] EXCEPT !.pc = pc]
           /\ task'[h].pc = pc /\ task'[h].user = task[h].user /\ task'[h].chat = task[h].chat
           /\ task'[h].ctx = task[h].ctx /\ task'[h].subject = task[h].subject
           /\ \A g \in Handlers \ {h} : task'[g] = task[g]
BY Types DEF Update

LEMMA GoesFor ==
    ASSUME TypeOK, NEW h \in Handlers, NEW pc \in Places, NEW x \in Names \cup Users, NEW b \in BOOLEAN,
           task' = [task EXCEPT ![h] = [@ EXCEPT !.pc = pc, !.subject = x, !.prime = b]]
    PROVE  /\ task' \in [Handlers -> Update]
           /\ task'[h].pc = pc /\ task'[h].user = task[h].user /\ task'[h].chat = task[h].chat
           /\ task'[h].ctx = task[h].ctx /\ task'[h].subject = x
           /\ \A g \in Handlers \ {h} : task'[g] = task[g]
BY Types DEF Update

LEMMA TakesUp ==
    ASSUME TypeOK, NEW h \in Handlers, NEW pc \in Places, NEW u \in Users, NEW c \in Chats,
           NEW ctx \in Resolutions \cup {None}, task' = [task EXCEPT ![h] = Asking(pc, u, c, ctx)]
    PROVE  /\ task' \in [Handlers -> Update]
           /\ task'[h].pc = pc /\ task'[h].user = u /\ task'[h].chat = c /\ task'[h].ctx = ctx
           /\ \A g \in Handlers \ {h} : task'[g] = task[g]
<1>1. Asking(pc, u, c, ctx) \in Update
  BY DEF Asking, Nobody, Update, Places
<1>2. /\ Asking(pc, u, c, ctx).pc = pc /\ Asking(pc, u, c, ctx).user = u
      /\ Asking(pc, u, c, ctx).chat = c /\ Asking(pc, u, c, ctx).ctx = ctx
  BY DEF Asking, Nobody
<1> QED BY <1>1, <1>2, Types

-----------------------------------------------------------------------------
(* Resolution and its cache.                                               *)
LEMMA SoleTeamIsOne == \A u : SoleTeam(u) # None => SoleTeam(u) \in Names /\ seat[SoleTeam(u)][u] # "none"
<1> SUFFICES ASSUME NEW u, SoleTeam(u) # None
             PROVE  SoleTeam(u) \in Names /\ seat[SoleTeam(u)][u] # "none"
  OBVIOUS
<1> DEFINE seated == {t \in Names : seat[t][u] # "none"}
           owned == {t \in seated : seat[t][u] = "owner"}
           candidates == IF owned = {} THEN seated ELSE owned
<1>1. SoleTeam(u) = IF Cardinality(candidates) = 1 THEN CHOOSE t \in candidates : TRUE ELSE None
  BY DEF SoleTeam
<1>2. candidates # {}
  BY <1>1, FS_EmptySet
<1>3. SoleTeam(u) \in candidates
  BY <1>1, <1>2
<1> QED BY <1>3

LEMMA ResolvedTyped ==
    ASSUME TypeOK, Rooted, NEW u \in Users, NEW c \in Chats
    PROVE  /\ Resolved(u, c) \in Resolutions \cup {None}
           /\ Resolved(u, c) # None => Made(Resolved(u, c).team)
<1>1. CASE Binding(u, c) = None \/ (Binding(u, c) # None /\ seat[Binding(u, c)][u] = "none")
  BY <1>1 DEF Resolved
<1>2. CASE ~(Binding(u, c) = None \/ (Binding(u, c) # None /\ seat[Binding(u, c)][u] = "none"))
  <2> DEFINE t == Binding(u, c)
  <2>1. t \in Names
    BY <1>2, Types, SoleTeamIsOne DEF Binding
  <2>2. seat[t][u] # "none" /\ Made(t)
    BY <1>2, <2>1 DEF Rooted
  <2>3. Resolved(u, c) = [team |-> t, role |-> seat[t][u], status |-> team[t].status, key |-> team[t].key]
    BY <1>2 DEF Resolved
  <2> HIDE DEF t
  <2>4. /\ seat[t][u] \in Roles /\ team[t].status \in {"pending", "active", "suspended"}
        /\ team[t].key \in BOOLEAN
    BY <2>1, <2>2, Types DEF Made, TeamRow
  <2> QED BY <2>1, <2>2, <2>3, <2>4 DEF Resolutions
<1> QED BY <1>1, <1>2

\* It is what the rows of teams, seats and chats say.
LEMMA ResolvedStands ==
    ASSUME UNCHANGED <<team, seat, chat>>
    PROVE  \A u, c : Resolved(u, c)' = Resolved(u, c)
<1> SUFFICES ASSUME NEW u, NEW c PROVE Resolved(u, c)' = Resolved(u, c)
  OBVIOUS
<1> DEFINE Sole(s) ==
             LET seated == {t \in Names : s[t][u] # "none"}
                 owned == {t \in seated : s[t][u] = "owner"}
                 candidates == IF owned = {} THEN seated ELSE owned
             IN  IF Cardinality(candidates) = 1 THEN CHOOSE t \in candidates : TRUE ELSE None
<1>1. SoleTeam(u) = Sole(seat)
  BY DEF SoleTeam
<1>2. SoleTeam(u)' = Sole(seat')
  BY DEF SoleTeam
<1> HIDE DEF Sole
<1>3. SoleTeam(u)' = SoleTeam(u)
  BY <1>1, <1>2
<1>4. Binding(u, c)' = Binding(u, c)
  BY <1>3 DEF Binding
<1> QED BY <1>4 DEF Resolved

LEMMA EntryTyped ==
    ASSUME NEW ctx \in Resolutions, NEW n \in 0 .. TTL
    PROVE  /\ Aged(ctx, n) \in Entries /\ Aged(ctx, n).age = n /\ Aged(ctx, n).team = ctx.team
           /\ Without(Aged(ctx, n)) = ctx
BY DEF Aged, Without, Entries, Resolutions

LEMMA RememberedTyped ==
    ASSUME NEW e \in Entries
    PROVE  Without(e) \in Resolutions /\ Without(e).team = e.team
BY DEF Without, Entries, Resolutions

LEMMA ForgottenIsLess ==
    ASSUME TypeOK, NEW ts, cache' = Forgotten(ts)
    PROVE  /\ cache' \in [Chats \X Users -> Entries \cup {None}]
           /\ \A k \in Chats \X Users : cache'[k] \in {cache[k], None}
<1>1. DOMAIN cache = Chats \X Users
  BY Types
<1> QED BY <1>1, Types DEF Forgotten

-----------------------------------------------------------------------------
(* What keeps each part of the invariant.                                  *)
Grows ==
    /\ \A t \in Names : team[t].status # "none" => team'[t].status # "none"
    /\ \A t \in Names, u \in Users :
          team[t].status # "none" /\ seat'[t][u] = "owner" => seat[t][u] = "owner"

Wanes == \A k \in Chats \X Users : cache'[k] \in {cache[k], None}

Ready(h) ==
    /\ Told(Ctx(h))
    /\ ~Idle(h) => task[h].user \in Users /\ task[h].chat \in Chats
    /\ task[h].pc \in {"key", "seat"} => Ctx(h) # None
    /\ At(h, "create") => Dm(h)
    /\ task[h].pc \in {"redeem", "bind"} => ~Dm(h)
    /\ At(h, "bind") => task[h].subject \in Names /\ team[task[h].subject].status # "none"
    /\ At(h, "seat") => task[h].subject \in Users
    /\ At(h, "seat") /\ seat[Mine(h)][task[h].subject] = "owner" => task[h].user = task[h].subject

LEMMA AllReady == Tasked /\ OwnersHold <=>
    (\A k \in Chats \X Users : Told(cache[k])) /\ \A h \in Handlers : Ready(h)
BY DEF Tasked, OwnersHold, Ready

LEMMA IdleIsReady == ASSUME NEW h \in Handlers, task[h] = Nobody PROVE Ready(h)
BY DEF Ready, Nobody, Told, Ctx, Idle, At

LEMMA ReadyStays ==
    ASSUME TypeOK, NEW h \in Handlers, Ready(h), Grows, task'[h] = task[h] PROVE Ready(h)'
<1>1. Ctx(h) # None => Ctx(h).team \in Names
  BY Types DEF Update, Resolutions, Ctx
<1>2. Told(Ctx(h))'
  BY <1>1 DEF Ready, Told, Ctx, Grows
<1>3. At(h, "bind") => team'[task[h].subject].status # "none"
  BY DEF Ready, Grows
<1>4. At(h, "seat") /\ seat'[Mine(h)][task[h].subject] = "owner" => task[h].user = task[h].subject
  BY <1>1 DEF Ready, Told, At, Grows, Mine, Ctx
<1> QED BY <1>2, <1>3, <1>4 DEF Ready, Idle, At, Dm, Ctx, Mine

LEMMA CacheStays ==
    ASSUME TypeOK, Tasked, Grows, Wanes PROVE \A k \in Chats \X Users : Told(cache[k])'
<1> SUFFICES ASSUME NEW k \in Chats \X Users, cache'[k] # None PROVE team'[cache'[k].team].status # "none"
  BY DEF Told
<1>1. cache'[k] = cache[k] /\ cache[k].team \in Names
  BY Types DEF Wanes, Entries
<1> QED BY <1>1 DEF Grows, Told, Tasked

LEMMA OthersStay ==
    ASSUME TypeOK, Tasked, OwnersHold, Grows, NEW h, \A g \in Handlers \ {h} : task'[g] = task[g],
           h \in Handlers => Ready(h)', \A k \in Chats \X Users : Told(cache[k])'
    PROVE  Tasked' /\ OwnersHold'
<1>1. \A g \in Handlers : Ready(g)'
  BY ReadyStays, AllReady
<1> QED BY <1>1 DEF Tasked, OwnersHold, Ready

LEMMA RootsStay == ASSUME Rooted, UNCHANGED <<team, seat, chat, code>> PROVE Rooted'
BY DEF Rooted, Made

LEMMA NewRowsAreYoung ==
    ASSUME TypeOK', settled' = 0 PROVE Young'
<1>1. cache' \in [Chats \X Users -> Entries \cup {None}]
  BY DEF TypeOK
<1>2. \A c \in Chats, u \in Users : cache'[<<c, u>>] # None => cache'[<<c, u>>].age \in Nat
  BY <1>1, TeamsGiven DEF Entries
<1> QED BY <1>2 DEF Young

LEMMA YoungStays ==
    ASSUME Young, UNCHANGED <<team, seat, chat, settled>>, Wanes,
           \A g \in Handlers, c \in Chats, u \in Users :
              task'[g].pc = "read" /\ task'[g].user = u /\ task'[g].chat = c =>
                 task'[g] = task[g] \/ task'[g].ctx = Resolved(u, c)
    PROVE  Young'
<1>1. ASSUME NEW c \in Chats, NEW u \in Users, cache'[<<c, u>>] # None, settled' > cache'[<<c, u>>].age
      PROVE  Without(cache'[<<c, u>>]) = Resolved(u, c)'
  <2>1. cache'[<<c, u>>] = cache[<<c, u>>]
    BY <1>1 DEF Wanes
  <2> QED BY <1>1, <2>1, ResolvedStands DEF Young
<1>2. ASSUME NEW g \in Handlers, NEW c \in Chats, NEW u \in Users,
             task'[g].pc = "read", task'[g].user = u, task'[g].chat = c, settled' > 0
      PROVE  task'[g].ctx = Resolved(u, c)'
  <2>1. task'[g].ctx = Resolved(u, c)
    BY <1>2 DEF Young, At, Ctx
  <2> QED BY <2>1, ResolvedStands
<1> QED BY <1>1, <1>2 DEF Young, At, Ctx

\* The parts of a team's account are finite.
LEMMA PartsCount ==
    ASSUME NEW t
    PROVE  /\ IsFiniteSet(GroupsOf(t)) /\ Cardinality(GroupsOf(t)) \in Nat
           /\ IsFiniteSet(Binders(t)) /\ Cardinality(Binders(t)) \in Nat
           /\ IsFiniteSet(LiveOf(t)) /\ Cardinality(LiveOf(t)) \in Nat
<1>1. GroupsOf(t) \subseteq Groups /\ Binders(t) \subseteq Handlers /\ LiveOf(t) \subseteq Users
  BY DEF GroupsOf, Binders, LiveOf
<1>2. IsFiniteSet(GroupsOf(t)) /\ IsFiniteSet(Binders(t)) /\ IsFiniteSet(LiveOf(t))
  BY <1>1, TeamsGiven, FS_Subset
<1> QED BY <1>2, FS_CardinalityType

LEMMA AccountStands ==
    ASSUME TypeOK, Paid, NEW t \in Names, Made(t), minted'[t] = minted[t],
           GroupsOf(t)' \subseteq GroupsOf(t), Binders(t)' \subseteq Binders(t), LiveOf(t)' \subseteq LiveOf(t)
    PROVE  Cardinality(GroupsOf(t)') + Cardinality(Binders(t)') + Cardinality(LiveOf(t)') <= minted'[t]
<1>1. /\ Cardinality(GroupsOf(t)') <= Cardinality(GroupsOf(t))
      /\ Cardinality(Binders(t)') <= Cardinality(Binders(t))
      /\ Cardinality(LiveOf(t)') <= Cardinality(LiveOf(t))
      /\ Cardinality(GroupsOf(t)') \in Nat /\ Cardinality(Binders(t)') \in Nat
      /\ Cardinality(LiveOf(t)') \in Nat
  BY PartsCount, FS_Subset, FS_CardinalityType
<1>2. Cardinality(GroupsOf(t)) + Cardinality(Binders(t)) + Cardinality(LiveOf(t)) <= minted[t]
  BY DEF Paid
<1>3. minted[t] \in Nat
  BY Types
<1> QED BY <1>1, <1>2, <1>3, PartsCount

\* Nobody is billed for a step in which no chat, no code and no binding is new.
LEMMA PaidStays ==
    ASSUME TypeOK, Paid, minted' = minted, NEW h,
           \A t \in Names : Made(t)' => Made(t),
           \A g \in Groups : chat'[g] \in {chat[g], None},
           \A t \in Names : Made(t)' => \A g \in Groups : chat'[g] # chat[g] => chat[g] # t,
           \A t \in Names, u \in Users : code'[t][u] = "live" => code[t][u] = "live",
           \A g \in Handlers \ {h} : task'[g] = task[g],
           \A g \in Handlers : At(g, "bind") => task[g].chat \in Groups,
           h \in Handlers => task'[h].pc # "bind" \/ chat'[task'[h].chat] = task'[h].subject
    PROVE  Paid'
<1> SUFFICES ASSUME NEW t \in Names, Made(t)'
             PROVE  Cardinality(GroupsOf(t)') + Cardinality(Binders(t)') + Cardinality(LiveOf(t)') <= minted'[t]
  BY DEF Paid
<1>1. GroupsOf(t)' \subseteq GroupsOf(t)
  BY TeamsGiven DEF GroupsOf
<1>2. Binders(t)' \subseteq Binders(t)
  BY DEF Binders, At
<1>3. LiveOf(t)' \subseteq LiveOf(t)
  BY DEF LiveOf
<1>4. Made(t)
  OBVIOUS
<1> QED BY <1>1, <1>2, <1>3, <1>4, AccountStands

\* Groups are set up from the group.
LEMMA AtPlace ==
    ASSUME TypeOK, Tasked, NEW h \in Handlers, task[h].pc \in {"redeem", "bind"}
    PROVE  task[h].chat \in Groups
BY Types DEF Tasked, Idle, Dm, Private, Chats

-----------------------------------------------------------------------------
(* The steps that change no row another update could tell: taking one up,  *)
(* refusing it, and what is looked up before something is written.         *)
LEMMA QuietKeeps ==
    ASSUME Governed, NEW h, UNCHANGED <<team, seat, chat, settled, minted, code>>,
           primary' \in [Names -> Chats \cup {None}], ops' \in 0 .. MaxOps, UNCHANGED cache,
           task' \in [Handlers -> Update], \A g \in Handlers \ {h} : task'[g] = task[g],
           h \in Handlers => /\ Ready(h)'
                             /\ task'[h].pc # "bind" \/ chat[task'[h].chat] = task'[h].subject
                             /\ \A c \in Chats, u \in Users :
                                   task'[h].pc = "read" /\ task'[h].user = u /\ task'[h].chat = c
                                      => task'[h].ctx = Resolved(u, c)
    PROVE  Governed'
<1>1. TypeOK /\ Rooted /\ Tasked /\ OwnersHold /\ Young /\ Paid
  BY DEF Governed
<1>2. TypeOK'
  BY <1>1 DEF TypeOK, Update, Places
<1>3. Grows /\ Wanes
  BY DEF Grows, Wanes
<1>4. Tasked' /\ OwnersHold'
  BY <1>1, <1>3, OthersStay, CacheStays
<1>5. Young'
  BY <1>1, <1>3, YoungStays
<1>6. \A g \in Handlers : At(g, "bind") => task[g].chat \in Groups
  BY <1>1, AtPlace DEF At
<1>7. Paid'
  BY <1>1, <1>6, PaidStays DEF Made
<1> QED BY <1>1, <1>2, <1>4, <1>5, <1>7, RootsStay DEF Governed

LEMMA RecallKeeps == ASSUME Governed, NEW h \in Handlers, Recall(h) PROVE Governed'
<1>1. TypeOK /\ Tasked /\ Rooted
  BY DEF Governed
<1>2. PICK u \in Users, c \in Chats :
        /\ Private(c) => c = u
        /\ Fresh(cache[<<c, u>>])
        /\ task' = [task EXCEPT ![h] = Asking("act", u, c, Without(cache[<<c, u>>]))]
  BY DEF Recall
<1> DEFINE e == cache[<<c, u>>]
<1>3. e \in Entries /\ e # None
  BY <1>1, <1>2, Types DEF Fresh
<1>4. Told(e)
  BY <1>1 DEF Tasked
<1> HIDE DEF e
<1>5. Without(e) \in Resolutions /\ Without(e).team = e.team
  BY <1>3, RememberedTyped
<1>6. /\ task' \in [Handlers -> Update]
      /\ task'[h].pc = "act" /\ task'[h].user = u /\ task'[h].chat = c /\ task'[h].ctx = Without(e)
      /\ \A g \in Handlers \ {h} : task'[g] = task[g]
  BY <1>1, <1>2, <1>5, TakesUp DEF e, Places
<1>7. Ready(h)'
  BY <1>3, <1>4, <1>5, <1>6 DEF Ready, Told, Idle, At, Ctx, Recall, rows
<1>8. /\ UNCHANGED <<team, seat, chat, settled, minted, code, cache>>
      /\ primary' \in [Names -> Chats \cup {None}] /\ ops' \in 0 .. MaxOps
  BY <1>1, Types DEF Recall, rows
<1> QED BY <1>6, <1>7, <1>8, QuietKeeps

LEMMA LookUpKeeps == ASSUME Governed, NEW h \in Handlers, LookUp(h) PROVE Governed'
<1>1. TypeOK /\ Tasked /\ Rooted
  BY DEF Governed
<1>2. PICK u \in Users, c \in Chats :
        task' = [task EXCEPT ![h] = Asking("read", u, c, Resolved(u, c))]
  BY DEF LookUp
<1> DEFINE r == Resolved(u, c)
<1>3. r \in Resolutions \cup {None} /\ (r # None => Made(r.team))
  BY <1>1, ResolvedTyped
<1>8. task' = [task EXCEPT ![h] = Asking("read", u, c, r)]
  BY <1>2
<1> HIDE DEF r
<1>4. /\ task' \in [Handlers -> Update]
      /\ task'[h].pc = "read" /\ task'[h].user = u /\ task'[h].chat = c /\ task'[h].ctx = r
      /\ \A g \in Handlers \ {h} : task'[g] = task[g]
  <2>1. TypeOK /\ r \in Resolutions \cup {None} /\ "read" \in Places
    BY <1>1, <1>3 DEF Places
  <2> QED BY <1>8, <2>1, TakesUp, ZenonT(60)
<1>5. Ready(h)'
  BY <1>3, <1>4 DEF Ready, Told, Idle, At, Ctx, LookUp, rows, Made
<1>6. /\ UNCHANGED <<team, seat, chat, settled, minted, code, cache>>
      /\ primary' \in [Names -> Chats \cup {None}] /\ ops' \in 0 .. MaxOps
  BY <1>1, Types DEF LookUp, rows
<1>7. \A d \in Chats, v \in Users :
        task'[h].pc = "read" /\ task'[h].user = v /\ task'[h].chat = d => task'[h].ctx = Resolved(v, d)
  BY <1>4 DEF r
<1> QED BY <1>4, <1>5, <1>6, <1>7, QuietKeeps

LEMMA RefuseKeeps ==
    ASSUME Governed, NEW h \in Handlers, Refuse(h) \/ BadCode(h) PROVE Governed'
<1>1. TypeOK
  BY DEF Governed
<1>2. /\ task' \in [Handlers -> Update]
      /\ task'[h] = Nobody /\ \A g \in Handlers \ {h} : task'[g] = task[g]
  BY <1>1, Ends DEF Refuse, BadCode
<1>3. Ready(h)' /\ task'[h].pc = "idle"
  BY <1>2 DEF Ready, Nobody, Told, Ctx, Idle, At
<1>4. /\ UNCHANGED <<team, seat, chat, settled, minted, code, cache>>
      /\ primary' \in [Names -> Chats \cup {None}] /\ ops' \in 0 .. MaxOps
  BY <1>1, Types DEF Refuse, BadCode, rows
<1> QED BY <1>2, <1>3, <1>4, QuietKeeps

\* /start, /key and /setup begin with a look.
LEMMA BeginKeeps ==
    ASSUME Governed, NEW h \in Handlers, Start(h) \/ CheckKey(h) \/ Probe(h) PROVE Governed'
<1>1. TypeOK /\ Tasked /\ OwnersHold
  BY DEF Governed
<1>2. /\ UNCHANGED <<team, seat, chat, settled, minted, code, cache>>
      /\ primary' \in [Names -> Chats \cup {None}] /\ ops' \in 0 .. MaxOps
  BY <1>1, TeamsGiven, Types DEF Start, CheckKey, Probe, rows, Counted, Acting
<1>3. PICK pc \in {"create", "key", "redeem"} :
        /\ task' = [task EXCEPT ![h].pc = pc]
        /\ pc = "create" => Dm(h)
        /\ pc = "key" => Ctx(h) # None
        /\ pc = "redeem" => ~Dm(h)
  BY DEF Start, CheckKey, Probe, IsOwner
<1>4. /\ task' \in [Handlers -> Update]
      /\ task'[h].pc = pc /\ task'[h].user = task[h].user /\ task'[h].chat = task[h].chat
      /\ task'[h].ctx = task[h].ctx
      /\ \A g \in Handlers \ {h} : task'[g] = task[g]
  BY <1>1, <1>3, GoesTo DEF Places
<1>5. At(h, "act") /\ Ready(h)
  BY <1>1, AllReady DEF Start, CheckKey, Probe, Acting
<1>6. Ready(h)'
  BY <1>2, <1>3, <1>4, <1>5 DEF Ready, Told, Idle, At, Ctx, Dm
<1> QED BY <1>2, <1>3, <1>4, <1>6, QuietKeeps

LEMMA SetupAgainKeeps == ASSUME Governed, NEW h \in Handlers, SetupAgain(h) PROVE Governed'
<1> DEFINE t == chat[task[h].chat]
<1>1. TypeOK /\ Tasked /\ OwnersHold /\ Rooted
  BY DEF Governed
<1>2. At(h, "act") /\ Ready(h)
  BY <1>1, AllReady DEF SetupAgain, Acting
<1>3. t \in Names /\ ~Dm(h) /\ task[h].chat \in Groups
  BY <1>1, <1>2, Types DEF SetupAgain, Ready, Idle, At, Dm, Private, Chats
<1>4. team[t].status # "none"
  BY <1>1, <1>3 DEF Rooted, Made
<1> HIDE DEF t
<1>5. task' = [task EXCEPT ![h] = [@ EXCEPT !.pc = "bind", !.subject = t,
                                            !.prime = (primary[t] = task[h].chat)]]
  BY DEF SetupAgain, ToBind, t
<1>6. /\ task' \in [Handlers -> Update]
      /\ task'[h].pc = "bind" /\ task'[h].user = task[h].user /\ task'[h].chat = task[h].chat
      /\ task'[h].ctx = task[h].ctx /\ task'[h].subject = t
      /\ \A g \in Handlers \ {h} : task'[g] = task[g]
  BY <1>1, <1>3, <1>5, GoesFor DEF Places
<1>7. /\ UNCHANGED <<team, seat, chat, settled, minted, code, cache>>
      /\ primary' \in [Names -> Chats \cup {None}] /\ ops' \in 0 .. MaxOps
  BY <1>1, Types DEF SetupAgain, rows
<1>8. Ready(h)'
  BY <1>2, <1>3, <1>4, <1>6, <1>7 DEF Ready, Told, Idle, At, Ctx, Dm
<1>9. chat[task'[h].chat] = task'[h].subject
  BY <1>6 DEF t
<1> QED BY <1>6, <1>7, <1>8, <1>9, QuietKeeps

LEMMA InviteKeeps == ASSUME Governed, NEW h \in Handlers, Invite(h) PROVE Governed'
<1>1. TypeOK /\ Tasked /\ OwnersHold /\ Rooted
  BY DEF Governed
<1>2. At(h, "act") /\ Ready(h) /\ Ctx(h) # None
  BY <1>1, AllReady DEF Invite, Acting, IsOwner
<1>3. /\ UNCHANGED <<team, seat, chat, settled, minted, code, cache>>
      /\ primary' \in [Names -> Chats \cup {None}] /\ ops' \in 0 .. MaxOps
  BY <1>1, TeamsGiven, Types DEF Invite, rows, Counted, Acting
<1>4. CASE End(h)
  <2>1. /\ task' \in [Handlers -> Update]
        /\ task'[h] = Nobody /\ \A g \in Handlers \ {h} : task'[g] = task[g]
    BY <1>1, <1>4, Ends
  <2>2. Ready(h)' /\ task'[h].pc = "idle"
    BY <2>1 DEF Ready, Nobody, Told, Ctx, Idle, At
  <2> QED BY <1>3, <2>1, <2>2, QuietKeeps
<1>5. ASSUME NEW u \in Users, MaySeat(Mine(h), task[h].user, u),
             task' = [task EXCEPT ![h] = [@ EXCEPT !.pc = "seat", !.subject = u]]
      PROVE  Governed'
  <2>1. task' = [task EXCEPT ![h] = [@ EXCEPT !.pc = "seat", !.subject = u, !.prime = task[h].prime]]
    BY <1>1, <1>5, Types DEF Update
  <2>2. /\ task' \in [Handlers -> Update]
        /\ task'[h].pc = "seat" /\ task'[h].user = task[h].user /\ task'[h].chat = task[h].chat
        /\ task'[h].ctx = task[h].ctx /\ task'[h].subject = u
        /\ \A g \in Handlers \ {h} : task'[g] = task[g]
    BY <1>1, <2>1, GoesFor, Types DEF Places, Update
  <2>3. task[h].user \in Users /\ Mine(h) \in Names
    BY <1>1, <1>2, Types DEF Ready, Idle, At, Mine, Ctx, Update, Resolutions
  <2>4. seat[Mine(h)][u] = "owner" => task[h].user = u
    BY <1>1, <1>5, <2>3 DEF MaySeat, Rooted
  <2>5. Ready(h)'
    BY <1>2, <1>3, <2>2, <2>4 DEF Ready, Told, Idle, At, Ctx, Dm, Mine
  <2> QED BY <1>3, <2>2, <2>5, QuietKeeps
<1> QED BY <1>4, <1>5 DEF Invite

-----------------------------------------------------------------------------
(* Resolutions kept for later, and their age.                              *)
LEMMA RememberKeeps == ASSUME Governed, NEW h \in Handlers, Remember(h) PROVE Governed'
<1>1. TypeOK /\ Rooted /\ Tasked /\ OwnersHold /\ Young /\ Paid
  BY DEF Governed
<1>2. /\ task' \in [Handlers -> Update]
      /\ task'[h].pc = "act" /\ task'[h].user = task[h].user /\ task'[h].chat = task[h].chat
      /\ task'[h].ctx = task[h].ctx
      /\ \A g \in Handlers \ {h} : task'[g] = task[g]
  BY <1>1, GoesTo DEF Remember, Places
<1>3. /\ UNCHANGED <<team, seat, chat, primary, code, settled, minted, ops>>
      /\ At(h, "read")
  BY DEF Remember, rows
<1> DEFINE key == <<task[h].chat, task[h].user>>
           c == task[h].chat
           u == task[h].user
<1>4. CASE Ctx(h) = None
  <2>1. cache' = cache
    BY <1>4 DEF Remember
  <2>2. Ready(h)'
    BY <1>1, <1>2, <1>3, AllReady DEF Ready, Told, Idle, At, Ctx
  <2>3. primary' \in [Names -> Chats \cup {None}] /\ ops' \in 0 .. MaxOps
    BY <1>1, <1>3, Types
  <2> QED BY <1>2, <1>3, <2>1, <2>2, <2>3, QuietKeeps
<1>5. CASE Ctx(h) # None
  <2>1. cache' = [cache EXCEPT ![key] = Aged(Ctx(h), 0)]
    BY <1>5 DEF Remember
  <2>2. c \in Chats /\ u \in Users /\ key \in Chats \X Users /\ Ctx(h) \in Resolutions
    BY <1>1, <1>3, <1>5, Types DEF Tasked, Idle, At, Ctx, Update
  <2>3. /\ Aged(Ctx(h), 0) \in Entries /\ Aged(Ctx(h), 0).age = 0
        /\ Aged(Ctx(h), 0).team = Ctx(h).team /\ Without(Aged(Ctx(h), 0)) = Ctx(h)
    BY <2>2, EntryTyped, TeamsGiven
  <2>4. cache' \in [Chats \X Users -> Entries \cup {None}]
    BY <1>1, <2>1, <2>2, <2>3, Types
  <2>5. TypeOK'
    BY <1>1, <1>2, <1>3, <2>4 DEF TypeOK, Update, Places
  <2>6. \A k \in Chats \X Users : cache'[k] = IF k = key THEN Aged(Ctx(h), 0) ELSE cache[k]
    BY <1>1, <2>1, <2>2, Types
  <2>7. \A k \in Chats \X Users : Told(cache[k])'
    BY <1>1, <1>3, <1>5, <2>3, <2>6 DEF Tasked, Told
  <2>8. Grows
    BY <1>3 DEF Grows
  <2>9. Ready(h)'
    BY <1>1, <1>2, <1>3, AllReady DEF Ready, Told, Idle, At, Ctx
  <2>10. Tasked' /\ OwnersHold'
    BY <1>1, <1>2, <2>7, <2>8, <2>9, OthersStay
  <2>11. Young'
    <3>1. ASSUME NEW d \in Chats, NEW v \in Users, cache'[<<d, v>>] # None, settled' > cache'[<<d, v>>].age
          PROVE  Without(cache'[<<d, v>>]) = Resolved(v, d)'
      <4>1. CASE <<d, v>> = key
        <5>1. d = c /\ v = u
          BY <4>1
        <5>2. cache'[<<d, v>>] = Aged(Ctx(h), 0)
          BY <2>6, <4>1
        <5>3. settled > 0
          BY <1>3, <2>3, <3>1, <5>2
        <5>4. Ctx(h) = Resolved(v, d)
          BY <1>1, <1>3, <5>1, <5>3 DEF Young
        <5> QED BY <1>3, <2>3, <5>2, <5>4, ResolvedStands
      <4>2. CASE <<d, v>> # key
        <5>1. cache'[<<d, v>>] = cache[<<d, v>>]
          BY <2>6, <4>2
        <5> QED BY <1>1, <1>3, <3>1, <5>1, ResolvedStands DEF Young
      <4> QED BY <4>1, <4>2
    <3>2. \A g \in Handlers : task'[g].pc = "read" => task'[g] = task[g]
      BY <1>2
    <3> QED BY <1>1, <1>3, <3>1, <3>2, ResolvedStands DEF Young, At, Ctx
  <2>12. \A g \in Handlers : At(g, "bind") => task[g].chat \in Groups
    BY <1>1, AtPlace DEF At
  <2>13. Paid'
    BY <1>1, <1>2, <1>3, <2>12, PaidStays DEF Made
  <2> QED BY <1>1, <1>3, <2>5, <2>10, <2>11, <2>13, RootsStay DEF Governed
<1> QED BY <1>4, <1>5

LEMMA AgesKeep == ASSUME Governed, Tick PROVE Governed'
<1>1. TypeOK /\ Rooted /\ Tasked /\ OwnersHold /\ Young /\ Paid
  BY DEF Governed
<1>2. UNCHANGED <<team, seat, chat, primary, code, minted, ops, task>>
  BY DEF Tick, rows
<1>3. /\ settled' = settled + 1 /\ settled < TTL /\ settled \in Nat
      /\ \A h \in Handlers : task[h].pc # "read"
  BY <1>1, Types, TeamsGiven DEF Tick, At
<1>4. \A k \in Chats \X Users :
        cache'[k] = IF cache[k] # None /\ (cache[k] # None => cache[k].age < TTL)
                    THEN [cache[k] EXCEPT !.age = @ + 1] ELSE cache[k]
  BY <1>1, Types DEF Tick
<1>5. ASSUME NEW k \in Chats \X Users
      PROVE  /\ cache'[k] \in Entries \cup {None}
             /\ cache'[k] # None => /\ cache[k] # None /\ cache'[k].team = cache[k].team
                                    /\ Without(cache'[k]) = Without(cache[k])
                                    /\ settled' > cache'[k].age => settled > cache[k].age
  <2>1. CASE cache[k] = None
    BY <1>4, <2>1
  <2>2. CASE cache[k] # None /\ cache[k].age < TTL
    <3>1. cache[k] \in Entries
      BY <1>1, <2>2, Types
    <3>2. cache'[k] = [cache[k] EXCEPT !.age = @ + 1]
      BY <1>4, <2>2
    <3> QED BY <1>3, <2>2, <3>1, <3>2, TeamsGiven DEF Entries, Without
  <2>3. CASE cache[k] # None /\ ~(cache[k].age < TTL)
    <3>1. cache[k] \in Entries
      BY <1>1, <2>3, Types
    <3>2. cache'[k] = cache[k]
      BY <1>4, <2>3
    <3>3. settled' <= cache[k].age
      BY <1>3, <2>3, <3>1, TeamsGiven DEF Entries
    <3>4. cache[k].age \in Nat
      BY <3>1, TeamsGiven DEF Entries
    <3> QED BY <1>3, <2>3, <3>1, <3>2, <3>3, <3>4
  <2> QED BY <2>1, <2>2, <2>3
<1>6. DOMAIN cache' = Chats \X Users /\ cache' = [k \in DOMAIN cache' |-> cache'[k]]
  BY <1>1, Types DEF Tick
<1>7. cache' \in [Chats \X Users -> Entries \cup {None}]
  BY <1>5, <1>6
<1>8. TypeOK'
  BY <1>1, <1>2, <1>3, <1>7, TeamsGiven DEF TypeOK
<1>9. Grows /\ \A k \in Chats \X Users : Told(cache[k])'
  BY <1>1, <1>2, <1>5 DEF Grows, Told, Tasked
<1> PICK h : h \notin Handlers
  BY NoSetContainsEverything
<1>10. Tasked' /\ OwnersHold'
  BY <1>1, <1>2, <1>9, OthersStay
<1>11. Young'
  <2>1. ASSUME NEW c \in Chats, NEW u \in Users, cache'[<<c, u>>] # None, settled' > cache'[<<c, u>>].age
        PROVE  Without(cache'[<<c, u>>]) = Resolved(u, c)'
    <3>1. Without(cache[<<c, u>>]) = Resolved(u, c)
      BY <1>1, <1>5, <2>1 DEF Young
    <3> QED BY <1>2, <1>5, <2>1, <3>1, ResolvedStands
  <2> QED BY <1>2, <1>3, <2>1 DEF Young, At
<1>12. \A g \in Handlers : At(g, "bind") => task[g].chat \in Groups
  BY <1>1, AtPlace DEF At
<1>13. Paid'
  BY <1>1, <1>2, <1>12, PaidStays DEF Made
<1> QED BY <1>1, <1>2, <1>8, <1>10, <1>11, <1>13, RootsStay DEF Governed

-----------------------------------------------------------------------------
(* The steps that change rows.                                             *)
LEMMA ChangeKeeps ==
    ASSUME Governed, TypeOK', Rooted', Young', Paid', Grows, Wanes, NEW h,
           \A g \in Handlers \ {h} : task'[g] = task[g], h \in Handlers => Ready(h)'
    PROVE  Governed'
<1>1. TypeOK /\ Tasked /\ OwnersHold
  BY DEF Governed
<1>2. Tasked' /\ OwnersHold'
  BY <1>1, OthersStay, CacheStays
<1> QED BY <1>2 DEF Governed

\* A team or a seat is changed, and whoever asked for it is done.
LEMMA RowsKeep ==
    ASSUME Governed, settled' = 0, UNCHANGED <<chat, primary, code, minted>>, NEW ts, cache' = Forgotten(ts),
           ops' \in 0 .. MaxOps, task' \in [Handlers -> Update], team' \in [Names -> TeamRow],
           seat' \in [Names -> [Users -> Roles]],
           NEW h, \A g \in Handlers \ {h} : task'[g] = task[g], h \in Handlers => task'[h] = Nobody,
           \A t \in Names : Made(t)' <=> Made(t), \A t \in Names : ~Made(t) => team'[t] = team[t],
           \A t \in Names, u \in Users : seat'[t][u] # "none" => Made(t),
           \A t \in Names, u \in Users : seat'[t][u] = "owner" => seat[t][u] = "owner"
    PROVE  Governed'
<1>1. TypeOK /\ Rooted /\ Tasked /\ Paid
  BY DEF Governed
<1>2. cache' \in [Chats \X Users -> Entries \cup {None}] /\ Wanes
  BY <1>1, ForgottenIsLess DEF Wanes
<1>3. TypeOK'
  BY <1>1, <1>2, TeamsGiven DEF TypeOK, Update, Places, TeamRow
<1>4. Rooted'
  BY <1>1 DEF Rooted
<1>5. Young'
  BY <1>3, NewRowsAreYoung
<1>6. Grows
  BY DEF Grows, Made
<1>7. h \in Handlers => Ready(h)' /\ task'[h].pc # "bind"
  BY DEF Ready, Nobody, Told, Ctx, Idle, At
<1>8. \A g \in Handlers : At(g, "bind") => task[g].chat \in Groups
  BY <1>1, AtPlace DEF At
<1>9. Paid'
  BY <1>1, <1>7, <1>8, PaidStays
<1> QED BY <1>2, <1>3, <1>4, <1>5, <1>6, <1>7, <1>9, ChangeKeeps

\* /key and /revoke.
LEMMA KeysKeep == ASSUME Governed, NEW h \in Handlers, StoreKey(h) \/ Revoke(h) PROVE Governed'
<1>1. TypeOK /\ Rooted /\ Tasked /\ OwnersHold
  BY DEF Governed
<1>2. Mine(h) \in Names
  BY <1>1, Types DEF StoreKey, Revoke, Tasked, IsOwner, At, Mine, Ctx, Update, Resolutions
<1>3. /\ task' \in [Handlers -> Update]
      /\ task'[h] = Nobody /\ \A g \in Handlers \ {h} : task'[g] = task[g]
  BY <1>1, Ends DEF StoreKey, Revoke
<1>4. /\ UNCHANGED <<seat, chat, primary, code, minted>> /\ settled' = 0 /\ cache' = Forgotten({Mine(h)})
      /\ ops' \in 0 .. MaxOps
  BY <1>1, Types, TeamsGiven DEF StoreKey, Revoke, Changed, Counted, Acting
<1>5. \/ team' = team
      \/ Made(Mine(h)) /\ \E r \in TeamRow :
            r.status \notin {"none", "deleted"} /\ team' = [team EXCEPT ![Mine(h)] = r]
  <2>1. Made(Mine(h)) => team[Mine(h)].status \in {"pending", "active", "suspended"}
    BY <1>1, <1>2, Types DEF Made, TeamRow
  <2>2. \A status \in {"pending", "active", "suspended"}, key \in BOOLEAN :
          LET r == [status |-> status, key |-> key] IN r \in TeamRow /\ r.status \notin {"none", "deleted"}
    BY DEF TeamRow
  <2>3. CASE StoreKey(h)
    <3>1. CASE Made(Mine(h))
      <4> DEFINE status == IF Ctx(h).status = "pending" THEN "active" ELSE team[Mine(h)].status
      <4>1. status \in {"pending", "active", "suspended"}
        BY <2>1, <3>1
      <4>2. team' = [team EXCEPT ![Mine(h)] = [status |-> status, key |-> TRUE]]
        BY <1>1, <1>2, <2>3, <3>1, Types DEF StoreKey
      <4> HIDE DEF status
      <4> QED BY <2>2, <3>1, <4>1, <4>2
    <3>2. CASE ~Made(Mine(h))
      BY <2>3, <3>2 DEF StoreKey
    <3> QED BY <3>1, <3>2
  <2>4. CASE Revoke(h)
    BY <2>2, <2>4 DEF Revoke
  <2> QED BY <2>3, <2>4
<1>6. /\ team' \in [Names -> TeamRow]
      /\ \A t \in Names : Made(t)' <=> Made(t)
      /\ \A t \in Names : ~Made(t) => team'[t] = team[t]
  <2>1. CASE team' = team
    BY <1>1, <2>1, Types DEF Made
  <2>2. CASE team' # team
    <3> PICK r \in TeamRow : r.status \notin {"none", "deleted"} /\ team' = [team EXCEPT ![Mine(h)] = r]
      BY <1>5, <2>2
    <3>1. Made(Mine(h))
      BY <1>5, <2>2
    <3>2. /\ team' \in [Names -> TeamRow] /\ team'[Mine(h)] = r
          /\ \A t \in Names \ {Mine(h)} : team'[t] = team[t]
      BY <1>1, <1>2, Types
    <3> QED BY <3>1, <3>2 DEF Made
  <2> QED BY <2>1, <2>2
<1>7. /\ seat' \in [Names -> [Users -> Roles]]
      /\ \A t \in Names, u \in Users : seat'[t][u] # "none" => Made(t)
      /\ \A t \in Names, u \in Users : seat'[t][u] = "owner" => seat[t][u] = "owner"
  BY <1>1, <1>4, Types DEF Rooted
<1> QED BY <1>3, <1>4, <1>6, <1>7, RowsKeep

LEMMA StatusGoes ==
    ASSUME TypeOK, NEW t \in Names, NEW s \in {"none", "deleted", "pending", "active", "suspended"},
           team' = [team EXCEPT ![t].status = s]
    PROVE  /\ team' \in [Names -> TeamRow] /\ team'[t].status = s
           /\ \A n \in Names \ {t} : team'[n] = team[n]
BY Types DEF TeamRow

LEMMA PlatformKeeps == ASSUME Governed, Platform PROVE Governed'
<1>1. TypeOK /\ Rooted
  BY DEF Governed
<1>2. PICK t \in Names, status \in {"suspended", "active"} :
        Made(t) /\ team' = [team EXCEPT ![t].status = status] /\ cache' = Forgotten({t})
  BY DEF Platform
<1>3. /\ UNCHANGED <<seat, chat, primary, code, minted, task>> /\ settled' = 0 /\ ops' \in 0 .. MaxOps
  BY <1>1, Types, TeamsGiven DEF Platform, Changed, Counted
<1>4. /\ team' \in [Names -> TeamRow]
      /\ \A n \in Names : Made(n)' <=> Made(n)
      /\ \A n \in Names : ~Made(n) => team'[n] = team[n]
  BY <1>1, <1>2, StatusGoes DEF Made
<1>5. /\ seat' \in [Names -> [Users -> Roles]] /\ task' \in [Handlers -> Update]
      /\ \A n \in Names, u \in Users : seat'[n][u] # "none" => Made(n)
      /\ \A n \in Names, u \in Users : seat'[n][u] = "owner" => seat[n][u] = "owner"
  BY <1>1, <1>3, Types DEF Rooted
<1> PICK h : h \notin Handlers
  BY NoSetContainsEverything
<1> QED BY <1>2, <1>3, <1>4, <1>5, RowsKeep

\* A seat is given or taken.
LEMMA SeatsKeep == ASSUME Governed, NEW h \in Handlers, Seat(h) \/ Unseat(h) PROVE Governed'
<1>1. TypeOK /\ Rooted /\ Tasked
  BY DEF Governed
<1>2. Mine(h) \in Names
  BY <1>1, Types DEF Seat, Unseat, Tasked, At, Mine, Ctx, Update, Resolutions
<1>3. /\ task' \in [Handlers -> Update]
      /\ task'[h] = Nobody /\ \A g \in Handlers \ {h} : task'[g] = task[g]
  BY <1>1, Ends DEF Seat, Unseat
<1>4. /\ UNCHANGED <<team, chat, primary, code, minted>> /\ settled' = 0 /\ cache' = Forgotten({Mine(h)})
      /\ ops' \in 0 .. MaxOps
  BY <1>1, Types, TeamsGiven DEF Seat, Unseat, Changed, Counted, Acting
<1>5. \/ seat' = seat
      \/ \E u \in Users, role \in {"member", "admin", "none"} :
            /\ role # "none" => Made(Mine(h))
            /\ seat' = [seat EXCEPT ![Mine(h)][u] = role]
  <2>1. CASE Seat(h)
    <3>1. task[h].subject \in Users
      BY <1>1, <2>1 DEF Seat, Tasked
    <3> QED BY <2>1, <3>1 DEF Seat, Seated
  <2>2. CASE Unseat(h)
    BY <2>2 DEF Unseat
  <2> QED BY <2>1, <2>2
<1>6. /\ seat' \in [Names -> [Users -> Roles]]
      /\ \A t \in Names, u \in Users : seat'[t][u] # "none" => Made(t)
      /\ \A t \in Names, u \in Users : seat'[t][u] = "owner" => seat[t][u] = "owner"
  <2>1. seat \in [Names -> [Users -> Roles]] /\ \A t \in Names, u \in Users : seat[t][u] # "none" => Made(t)
    BY <1>1, Types DEF Rooted
  <2>2. ASSUME NEW v \in Users, NEW role \in {"member", "admin", "none"}, role # "none" => Made(Mine(h)),
               seat' = [seat EXCEPT ![Mine(h)][v] = role]
        PROVE  /\ seat' \in [Names -> [Users -> Roles]]
               /\ \A t \in Names, u \in Users : seat'[t][u] # "none" => Made(t)
               /\ \A t \in Names, u \in Users : seat'[t][u] = "owner" => seat[t][u] = "owner"
    <3>1. \A t \in Names, u \in Users :
            seat'[t][u] = IF t = Mine(h) /\ u = v THEN role ELSE seat[t][u]
      BY <1>2, <2>1, <2>2
    <3>2. seat' \in [Names -> [Users -> Roles]]
      BY <1>2, <2>1, <2>2 DEF Roles
    <3> QED BY <2>1, <2>2, <3>1, <3>2
  <2> QED BY <1>5, <2>1, <2>2
<1>7. /\ team' \in [Names -> TeamRow]
      /\ \A t \in Names : Made(t)' <=> Made(t)
      /\ \A t \in Names : ~Made(t) => team'[t] = team[t]
  BY <1>1, <1>4, Types DEF Made
<1> QED BY <1>3, <1>4, <1>6, <1>7, RowsKeep

LEMMA DemoteKeeps == ASSUME Governed, Demote PROVE Governed'
<1>1. TypeOK
  BY DEF Governed
<1>2. PICK c \in Groups : primary' = Unnominated(c)
  BY DEF Demote
<1>3. primary' \in [Names -> Chats \cup {None}]
  BY <1>1, <1>2, Types DEF Unnominated
<1>4. UNCHANGED <<team, seat, chat, settled, minted, code, cache, task>> /\ ops' \in 0 .. MaxOps
  BY <1>1, TeamsGiven, Types DEF Demote, Counted
<1>5. task' \in [Handlers -> Update]
  BY <1>1, <1>4, Types
<1> PICK h : h \notin Handlers
  BY NoSetContainsEverything
<1> QED BY <1>3, <1>4, <1>5, QuietKeeps

-----------------------------------------------------------------------------
(* Codes, and the groups they pay for.                                     *)
LEMMA OneMore ==
    ASSUME NEW S, IsFiniteSet(S), NEW x, NEW T, T \subseteq S \cup {x}
    PROVE  Cardinality(T) \in Nat /\ Cardinality(S) \in Nat /\ Cardinality(T) <= Cardinality(S) + 1
<1> DEFINE X == S \cup {x}
<1>1. Cardinality(S) \in Nat
  BY FS_CardinalityType
<1>2. CASE x \in S
  <2>1. T \subseteq S
    BY <1>2
  <2>2. Cardinality(T) \in Nat /\ Cardinality(T) <= Cardinality(S)
    BY <2>1, FS_Subset, FS_CardinalityType
  <2> QED BY <1>1, <2>2
<1>3. CASE x \notin S
  <2>1. IsFiniteSet(X) /\ Cardinality(X) = Cardinality(S) + 1
    BY <1>3, FS_AddElement
  <2>2. Cardinality(T) \in Nat /\ Cardinality(T) <= Cardinality(X)
    BY <2>1, FS_Subset, FS_CardinalityType
  <2> HIDE DEF X
  <2> QED BY <1>1, <2>1, <2>2
<1> QED BY <1>2, <1>3

LEMMA OneLess ==
    ASSUME NEW S, IsFiniteSet(S), NEW x \in S, NEW T, T \subseteq S \ {x}
    PROVE  Cardinality(T) \in Nat /\ Cardinality(S) \in Nat /\ Cardinality(T) + 1 <= Cardinality(S)
<1>1. IsFiniteSet(S \ {x}) /\ Cardinality(S \ {x}) = Cardinality(S) - 1
  BY FS_RemoveElement
<1>2. IsFiniteSet(T) /\ Cardinality(T) <= Cardinality(S \ {x})
  BY <1>1, FS_Subset
<1> QED BY <1>1, <1>2, FS_CardinalityType

LEMMA CodesKeep ==
    ASSUME Governed, UNCHANGED <<team, seat, chat, primary, cache, settled>>,
           code' \in [Names -> [Users -> {"none", "live", "used"}]], minted' \in [Names -> Nat],
           ops' \in 0 .. MaxOps, task' \in [Handlers -> Update],
           NEW h, \A g \in Handlers \ {h} : task'[g] = task[g],
           h \in Handlers => Ready(h)' /\ task'[h].pc # "read",
           \A t \in Names, u \in Users : code'[t][u] = "live" => Made(t), Paid'
    PROVE  Governed'
<1>1. TypeOK /\ Rooted /\ Young
  BY DEF Governed
<1>2. TypeOK'
  BY <1>1 DEF TypeOK, Update, Places
<1>3. Rooted'
  BY <1>1 DEF Rooted, Made
<1>4. Grows /\ Wanes
  BY DEF Grows, Wanes
<1>5. Young'
  BY <1>1, <1>4, YoungStays
<1> QED BY <1>2, <1>3, <1>4, <1>5, ChangeKeeps

LEMMA LapseKeeps == ASSUME Governed, Lapse PROVE Governed'
<1>1. TypeOK /\ Rooted /\ Tasked /\ Paid
  BY DEF Governed
<1>2. PICK t \in Names, u \in Users : code' = [code EXCEPT ![t][u] = "used"]
  BY DEF Lapse
<1>3. UNCHANGED <<team, seat, chat, primary, cache, settled, task, minted, ops>>
  BY DEF Lapse
<1>4. /\ code' \in [Names -> [Users -> {"none", "live", "used"}]]
      /\ \A n \in Names, v \in Users : code'[n][v] = "live" => code[n][v] = "live"
  BY <1>1, <1>2, Types
<1>5. minted' \in [Names -> Nat] /\ ops' \in 0 .. MaxOps /\ task' \in [Handlers -> Update]
  BY <1>1, <1>3, Types
<1> PICK h : h \notin Handlers
  BY NoSetContainsEverything
<1>6. \A g \in Handlers : At(g, "bind") => task[g].chat \in Groups
  BY <1>1, AtPlace DEF At
<1>7. Paid'
  BY <1>1, <1>3, <1>4, <1>6, PaidStays DEF Made
<1>8. \A n \in Names, v \in Users : code'[n][v] = "live" => Made(n)
  BY <1>1, <1>4 DEF Rooted
<1> QED BY <1>3, <1>4, <1>5, <1>7, <1>8, CodesKeep

LEMMA MintCodeKeeps == ASSUME Governed, NEW h \in Handlers, MintCode(h) PROVE Governed'
<1>1. TypeOK /\ Rooted /\ Tasked /\ Paid
  BY DEF Governed
<1> DEFINE m == Mine(h)
           u == task[h].user
<1>2. m \in Names /\ u \in Users /\ Made(m)
  BY <1>1, Types DEF MintCode, Acting, IsOwner, Tasked, Idle, At, Mine, Ctx, Update, Resolutions
<1>3. /\ task' \in [Handlers -> Update]
      /\ task'[h] = Nobody /\ \A g \in Handlers \ {h} : task'[g] = task[g]
  BY <1>1, Ends DEF MintCode
<1>4. UNCHANGED <<team, seat, chat, primary, cache, settled>> /\ ops' \in 0 .. MaxOps
  BY <1>1, Types, TeamsGiven DEF MintCode, Counted, Acting
<1>5. code' = [code EXCEPT ![m][u] = "live"] /\ minted' = [minted EXCEPT ![m] = @ + 1]
  BY DEF MintCode
<1> HIDE DEF m, u
<1>6. /\ code' \in [Names -> [Users -> {"none", "live", "used"}]]
      /\ \A t \in Names, v \in Users : code'[t][v] = IF t = m /\ v = u THEN "live" ELSE code[t][v]
  BY <1>1, <1>2, <1>5, Types
<1>7. /\ minted' \in [Names -> Nat] /\ minted[m] \in Nat /\ minted'[m] = minted[m] + 1
      /\ \A t \in Names \ {m} : minted'[t] = minted[t]
  BY <1>1, <1>2, <1>5, Types
<1>8. Ready(h)' /\ task'[h].pc = "idle"
  BY <1>3 DEF Ready, Nobody, Told, Ctx, Idle, At
<1>9. \A t \in Names, v \in Users : code'[t][v] = "live" => Made(t)
  BY <1>1, <1>2, <1>6 DEF Rooted
<1>10. ASSUME NEW t \in Names, Made(t)
       PROVE  Cardinality(GroupsOf(t)') + Cardinality(Binders(t)') + Cardinality(LiveOf(t)') <= minted'[t]
  <2>1. GroupsOf(t)' = GroupsOf(t)
    BY <1>4 DEF GroupsOf
  <2>2. Binders(t)' \subseteq Binders(t)
    BY <1>3, <1>4, <1>8 DEF Binders, At
  <2>3. CASE t = m
    <3>1. LiveOf(t)' \subseteq LiveOf(t) \cup {u}
      BY <1>6 DEF LiveOf
    <3>2. Cardinality(LiveOf(t)') \in Nat /\ Cardinality(LiveOf(t)') <= Cardinality(LiveOf(t)) + 1
      BY <3>1, PartsCount, OneMore
    <3>3. Cardinality(Binders(t)') <= Cardinality(Binders(t)) /\ Cardinality(Binders(t)') \in Nat
      BY <2>2, PartsCount, FS_Subset, FS_CardinalityType
    <3>4. Cardinality(GroupsOf(t)) + Cardinality(Binders(t)) + Cardinality(LiveOf(t)) <= minted[t]
      BY <1>1, <1>10 DEF Paid
    <3> QED BY <1>7, <2>1, <2>3, <3>2, <3>3, <3>4, PartsCount
  <2>4. CASE t # m
    <3>1. LiveOf(t)' \subseteq LiveOf(t) /\ minted'[t] = minted[t]
      BY <1>6, <1>7, <2>4 DEF LiveOf
    <3> QED BY <1>1, <1>10, <2>1, <2>2, <3>1, AccountStands
  <2> QED BY <2>3, <2>4
<1>11. Paid'
  BY <1>4, <1>10 DEF Paid, Made
<1> QED BY <1>3, <1>4, <1>6, <1>7, <1>8, <1>9, <1>11, CodesKeep

LEMMA RedeemKeeps == ASSUME Governed, NEW h \in Handlers, Redeem(h) PROVE Governed'
<1>1. TypeOK /\ Rooted /\ Tasked /\ OwnersHold /\ Paid
  BY DEF Governed
<1>2. PICK m \in Names, u \in Users :
        /\ code[m][u] = "live"
        /\ code' = [code EXCEPT ![m][u] = "used"]
        /\ IF u = task[h].user THEN task' = ToBind(h, m, TRUE) ELSE End(h)
  BY DEF Redeem
<1>3. UNCHANGED <<team, seat, chat, primary, cache, settled, minted, ops>> /\ At(h, "redeem")
  BY DEF Redeem
<1>4. /\ code' \in [Names -> [Users -> {"none", "live", "used"}]]
      /\ \A t \in Names, v \in Users : code'[t][v] = IF t = m /\ v = u THEN "used" ELSE code[t][v]
  BY <1>1, <1>2, Types
<1>5. minted' \in [Names -> Nat] /\ ops' \in 0 .. MaxOps
  BY <1>1, <1>3, Types
<1>6. \A t \in Names, v \in Users : code'[t][v] = "live" => Made(t)
  BY <1>1, <1>4 DEF Rooted
<1>7. Made(m)
  BY <1>1, <1>2 DEF Rooted
<1>8. CASE u # task[h].user
  <2>1. /\ task' \in [Handlers -> Update]
        /\ task'[h] = Nobody /\ \A g \in Handlers \ {h} : task'[g] = task[g]
    BY <1>1, <1>2, <1>8, Ends
  <2>2. Ready(h)' /\ task'[h].pc = "idle"
    BY <2>1 DEF Ready, Nobody, Told, Ctx, Idle, At
  <2>3. \A g \in Handlers : At(g, "bind") => task[g].chat \in Groups
    BY <1>1, AtPlace DEF At
  <2>4. Paid'
    BY <1>1, <1>3, <1>4, <2>1, <2>2, <2>3, PaidStays DEF Made
  <2> QED BY <1>3, <1>4, <1>5, <1>6, <2>1, <2>2, <2>4, CodesKeep
<1>9. CASE u = task[h].user
  <2>1. task' = [task EXCEPT ![h] = [@ EXCEPT !.pc = "bind", !.subject = m, !.prime = TRUE]]
    BY <1>2, <1>9 DEF ToBind
  <2>2. /\ task' \in [Handlers -> Update]
        /\ task'[h].pc = "bind" /\ task'[h].user = task[h].user /\ task'[h].chat = task[h].chat
        /\ task'[h].ctx = task[h].ctx /\ task'[h].subject = m
        /\ \A g \in Handlers \ {h} : task'[g] = task[g]
    BY <1>1, <2>1, GoesFor DEF Places
  <2>3. Ready(h)
    BY <1>1, AllReady
  <2>4. Ready(h)'
    BY <1>3, <1>7, <2>2, <2>3 DEF Ready, Told, Idle, At, Ctx, Dm, Made
  <2>5. ASSUME NEW t \in Names, Made(t)
        PROVE  Cardinality(GroupsOf(t)') + Cardinality(Binders(t)') + Cardinality(LiveOf(t)') <= minted'[t]
    <3>1. GroupsOf(t)' = GroupsOf(t)
      BY <1>3 DEF GroupsOf
    <3>2. CASE t = m
      <4>1. Binders(t)' \subseteq Binders(t) \cup {h}
        BY <1>3, <2>2 DEF Binders, At
      <4>2. u \in LiveOf(t) /\ LiveOf(t)' \subseteq LiveOf(t) \ {u}
        BY <1>2, <1>4, <3>2 DEF LiveOf
      <4>3. Cardinality(Binders(t)') \in Nat /\ Cardinality(Binders(t)') <= Cardinality(Binders(t)) + 1
        BY <4>1, PartsCount, OneMore
      <4>4. Cardinality(LiveOf(t)') \in Nat /\ Cardinality(LiveOf(t)') + 1 <= Cardinality(LiveOf(t))
        BY <4>2, PartsCount, OneLess
      <4>5. Cardinality(GroupsOf(t)) + Cardinality(Binders(t)) + Cardinality(LiveOf(t)) <= minted[t]
        BY <1>1, <2>5 DEF Paid
      <4>6. minted'[t] = minted[t] /\ minted[t] \in Nat
        BY <1>1, <1>3, Types
      <4> QED BY <3>1, <4>3, <4>4, <4>5, <4>6, PartsCount
    <3>3. CASE t # m
      <4>1. Binders(t)' \subseteq Binders(t)
        BY <1>3, <2>2, <3>3 DEF Binders, At
      <4>2. LiveOf(t)' \subseteq LiveOf(t)
        BY <1>4 DEF LiveOf
      <4>3. minted'[t] = minted[t]
        BY <1>3
      <4> QED BY <1>1, <2>5, <3>1, <4>1, <4>2, <4>3, AccountStands
    <3> QED BY <3>2, <3>3
  <2>6. Paid'
    BY <1>3, <2>5 DEF Paid, Made
  <2> QED BY <1>3, <1>4, <1>5, <1>6, <2>2, <2>4, <2>6, CodesKeep
<1> QED BY <1>8, <1>9

LEMMA BindGroupKeeps == ASSUME Governed, NEW h \in Handlers, BindGroup(h) PROVE Governed'
<1>1. TypeOK /\ Rooted /\ Tasked /\ OwnersHold /\ Paid
  BY DEF Governed
<1> DEFINE c == task[h].chat
           t == task[h].subject
<1>2. t \in Names /\ c \in Groups /\ c \in Chats
  BY <1>1, AtPlace DEF BindGroup, Tasked, At, Chats
<1>3. /\ task' \in [Handlers -> Update]
      /\ task'[h] = Nobody /\ \A g \in Handlers \ {h} : task'[g] = task[g]
  BY <1>1, Ends DEF BindGroup
<1>4. Ready(h)' /\ task'[h].pc = "idle"
  BY <1>3 DEF Ready, Nobody, Told, Ctx, Idle, At
<1>5. UNCHANGED <<team, seat, code, cache, minted, ops>> /\ At(h, "bind")
  BY DEF BindGroup
<1>6. CASE ~(MayBind(c, t) /\ Made(t))
  <2>1. UNCHANGED <<chat, primary, settled>>
    BY <1>6 DEF BindGroup
  <2>2. primary' \in [Names -> Chats \cup {None}] /\ ops' \in 0 .. MaxOps
    BY <1>1, <1>5, <2>1, Types
  <2> QED BY <1>3, <1>4, <1>5, <2>1, <2>2, QuietKeeps
<1>7. CASE MayBind(c, t) /\ Made(t)
  <2>1. /\ chat' = [chat EXCEPT ![c] = t] /\ settled' = 0
        /\ \E p \in Chats \cup {None} : primary' = [primary EXCEPT ![t] = p]
    BY <1>1, <1>2, <1>7, Types DEF BindGroup, Changed
  <2> HIDE DEF c, t
  <2>2. /\ chat' \in [Chats -> Names \cup {None}] /\ primary' \in [Names -> Chats \cup {None}]
        /\ chat'[c] = t /\ \A d \in Chats \ {c} : chat'[d] = chat[d]
    BY <1>1, <1>2, <2>1, Types
  <2>3. TypeOK'
    BY <1>1, <1>3, <1>5, <2>1, <2>2, TeamsGiven DEF TypeOK, Update, Places
  <2>4. Rooted'
    BY <1>1, <1>2, <1>5, <1>7, <2>2 DEF Rooted, Made, Chats
  <2>5. Young'
    BY <2>1, <2>3, NewRowsAreYoung
  <2>6. Grows /\ Wanes
    BY <1>5 DEF Grows, Wanes
  <2>7. \A g \in Handlers : At(g, "bind") => task[g].chat \in Groups
    BY <1>1, AtPlace DEF At
  <2>8. ASSUME NEW n \in Names, Made(n)
        PROVE  Cardinality(GroupsOf(n)') + Cardinality(Binders(n)') + Cardinality(LiveOf(n)') <= minted'[n]
    <3>1. LiveOf(n)' = LiveOf(n) /\ minted'[n] = minted[n] /\ minted[n] \in Nat
      BY <1>1, <1>5, Types DEF LiveOf
    <3>2. chat[c] \in {None, t}
      BY <1>7 DEF MayBind
    <3>3. ASSUME NEW g \in Binders(n)' PROVE g \in Binders(n) /\ g # h
      <4>1. g \in Handlers /\ task'[g].pc = "bind" /\ task'[g].subject = n /\ chat'[task'[g].chat] # n
        BY <3>3 DEF Binders, At
      <4>2. g # h /\ task'[g] = task[g]
        BY <1>3, <1>4, <4>1
      <4>3. task[g].chat \in Groups /\ task[g].chat \in Chats
        BY <2>7, <4>1, <4>2 DEF At, Chats
      <4>4. chat[task[g].chat] # n
        <5>1. CASE task[g].chat = c
          BY <2>2, <3>2, <4>1, <4>2, <5>1, TeamsGiven
        <5>2. CASE task[g].chat # c
          BY <2>2, <4>1, <4>2, <4>3, <5>2
        <5> QED BY <5>1, <5>2
      <4> QED BY <4>1, <4>2, <4>4 DEF Binders, At
    <3>4. CASE n = t /\ chat[c] = None
      <4>1. GroupsOf(n)' \subseteq GroupsOf(n) \cup {c}
        BY <2>2 DEF GroupsOf, Chats
      <4>2. h \in Binders(n)
        BY <1>5, <3>4, TeamsGiven DEF Binders, c, t
      <4>3. Cardinality(GroupsOf(n)') \in Nat /\ Cardinality(GroupsOf(n)') <= Cardinality(GroupsOf(n)) + 1
        BY <4>1, PartsCount, OneMore
      <4>4. Binders(n)' \subseteq Binders(n) \ {h}
        BY <3>3
      <4>5. Cardinality(Binders(n)') \in Nat /\ Cardinality(Binders(n)') + 1 <= Cardinality(Binders(n))
        BY <4>2, <4>4, PartsCount, OneLess
      <4>6. Cardinality(GroupsOf(n)) + Cardinality(Binders(n)) + Cardinality(LiveOf(n)) <= minted[n]
        BY <1>1, <2>8 DEF Paid
      <4> QED BY <3>1, <4>3, <4>5, <4>6, PartsCount
    <3>5. CASE ~(n = t /\ chat[c] = None)
      <4>1. GroupsOf(n)' \subseteq GroupsOf(n)
        BY <1>2, <2>2, <3>2, <3>5 DEF GroupsOf, Chats
      <4>2. Binders(n)' \subseteq Binders(n) /\ LiveOf(n)' \subseteq LiveOf(n)
        BY <3>1, <3>3
      <4> QED BY <1>1, <2>8, <3>1, <4>1, <4>2, AccountStands
    <3> QED BY <3>4, <3>5
  <2>9. Paid'
    BY <1>5, <2>8 DEF Paid, Made
  <2> QED BY <1>3, <1>4, <2>3, <2>4, <2>5, <2>6, <2>9, ChangeKeeps
<1> QED BY <1>6, <1>7

-----------------------------------------------------------------------------
(* Teams come and go, and private chats move between them.                 *)
LEMMA UseKeeps == ASSUME Governed, NEW h \in Handlers, Use(h) PROVE Governed'
<1>1. TypeOK /\ Rooted /\ Tasked /\ Paid
  BY DEF Governed
<1> DEFINE c == task[h].chat
<1>2. PICK t \in Names : Rebound(c, t) /\ cache' = Forgotten({Mine(h), t})
  BY DEF Use
<1>3. c \in Users
  BY DEF Use, Dm, Private
<1>4. UNCHANGED <<team, seat, code, minted>> /\ settled' = 0 /\ ops' \in 0 .. MaxOps
  BY <1>1, Types, TeamsGiven DEF Use, Changed, Counted, Acting
<1>5. /\ task' \in [Handlers -> Update]
      /\ task'[h] = Nobody /\ \A g \in Handlers \ {h} : task'[g] = task[g]
  BY <1>1, Ends DEF Use
<1> HIDE DEF c
<1>6. chat' = [chat EXCEPT ![c] = t] /\ primary' = Unnominated(c)
  BY <1>2 DEF Rebound
<1>7. /\ chat' \in [Chats -> Names \cup {None}] /\ primary' \in [Names -> Chats \cup {None}]
      /\ \A g \in Groups : chat'[g] = chat[g]
  BY <1>1, <1>3, <1>6, Types, TeamsGiven DEF Unnominated, Chats
<1>8. cache' \in [Chats \X Users -> Entries \cup {None}] /\ Wanes
  BY <1>1, <1>2, ForgottenIsLess DEF Wanes
<1>9. TypeOK'
  BY <1>1, <1>4, <1>5, <1>7, <1>8, TeamsGiven DEF TypeOK, Update, Places
<1>10. Rooted'
  BY <1>1, <1>4, <1>7 DEF Rooted, Made
<1>11. Young'
  BY <1>4, <1>9, NewRowsAreYoung
<1>12. Grows
  BY <1>4 DEF Grows
<1>13. Ready(h)' /\ task'[h].pc = "idle"
  BY <1>5 DEF Ready, Nobody, Told, Ctx, Idle, At
<1>14. \A g \in Handlers : At(g, "bind") => task[g].chat \in Groups
  BY <1>1, AtPlace DEF At
<1>15. Paid'
  BY <1>1, <1>4, <1>5, <1>7, <1>13, <1>14, PaidStays DEF Made
<1> QED BY <1>5, <1>8, <1>9, <1>10, <1>11, <1>12, <1>13, <1>15, ChangeKeeps

LEMMA CreateTeamKeeps == ASSUME Governed, NEW h \in Handlers, CreateTeam(h) PROVE Governed'
<1>1. TypeOK /\ Rooted /\ Tasked /\ OwnersHold /\ Paid
  BY DEF Governed
<1> DEFINE c == task[h].chat
           u == task[h].user
<1>2. PICK t \in Names :
        /\ team[t] = Unmade /\ Created(t, u)
        /\ IF chat[c] = None
           THEN chat' = [chat EXCEPT ![c] = t] /\ primary' = [primary EXCEPT ![t] = c]
           ELSE UNCHANGED <<chat, primary>>
  BY DEF CreateTeam
<1>3. c \in Users /\ u \in Users /\ c \in Chats
  BY <1>1 DEF CreateTeam, Tasked, Dm, Private, Idle, At, Chats
<1>4. UNCHANGED <<code, cache, minted, ops>> /\ settled' = 0
  BY DEF CreateTeam, Changed
<1>5. /\ task' \in [Handlers -> Update]
      /\ task'[h] = Nobody /\ \A g \in Handlers \ {h} : task'[g] = task[g]
  BY <1>1, Ends DEF CreateTeam
<1> HIDE DEF c, u
<1>6. team' = [team EXCEPT ![t].status = "pending"] /\ seat' = [seat EXCEPT ![t][u] = "owner"]
  BY <1>2 DEF Created, Seated
<1>7. /\ team' \in [Names -> TeamRow] /\ team'[t].status = "pending"
      /\ \A n \in Names \ {t} : team'[n] = team[n]
  BY <1>1, <1>6, StatusGoes
<1>8. /\ seat' \in [Names -> [Users -> Roles]]
      /\ \A n \in Names, v \in Users : seat'[n][v] = IF n = t /\ v = u THEN "owner" ELSE seat[n][v]
  BY <1>1, <1>3, <1>6, Types DEF Roles
<1>9. /\ chat' \in [Chats -> Names \cup {None}] /\ primary' \in [Names -> Chats \cup {None}]
      /\ \A g \in Groups : chat'[g] = chat[g]
  <2>1. CASE chat[c] = None
    BY <1>1, <1>2, <1>3, <2>1, Types, TeamsGiven DEF Chats
  <2>2. CASE chat[c] # None
    BY <1>1, <1>2, <2>2, Types
  <2> QED BY <2>1, <2>2
<1>10. ~Made(t) /\ Made(t)' /\ \A n \in Names \ {t} : Made(n)' <=> Made(n)
  BY <1>2, <1>7 DEF Made, Unmade
<1>11. TypeOK'
  BY <1>1, <1>4, <1>5, <1>7, <1>8, <1>9, TeamsGiven DEF TypeOK, Update, Places, TeamRow
<1>12. Rooted'
  <2>1. \A v \in Users : seat[t][v] = "none" /\ code[t][v] # "live"
    BY <1>1, <1>10 DEF Rooted
  <2>2. \A g \in Groups : chat[g] # t
    BY <1>1, <1>10 DEF Rooted
  <2>3. \A n \in Names, v \in Users : seat'[n][v] # "none" => Made(n)'
    BY <1>1, <1>8, <1>10 DEF Rooted
  <2>4. \A n \in Names, v \in Users : code'[n][v] = "live" => Made(n)'
    BY <1>1, <1>4, <1>10 DEF Rooted
  <2>5. \A n \in Names, g \in Groups : chat'[g] = n => Made(n)'
    BY <1>1, <1>9, <1>10 DEF Rooted
  <2>6. \A n \in Names, v, w \in Users : seat'[n][v] = "owner" /\ seat'[n][w] = "owner" => v = w
    BY <1>1, <1>8, <2>1 DEF Rooted
  <2> QED BY <2>3, <2>4, <2>5, <2>6 DEF Rooted
<1>13. Young'
  BY <1>4, <1>11, NewRowsAreYoung
<1>14. Grows /\ Wanes
  <2>1. \A n \in Names : team[n].status # "none" => n # t
    BY <1>2 DEF Unmade
  <2> QED BY <1>4, <1>7, <1>8, <2>1 DEF Grows, Wanes
<1>15. Ready(h)' /\ task'[h].pc = "idle"
  BY <1>5 DEF Ready, Nobody, Told, Ctx, Idle, At
<1>16. \A g \in Handlers : At(g, "bind") => task[g].chat \in Groups /\ task[g].subject # t
  BY <1>1, <1>2, AtPlace DEF At, Tasked, Unmade
<1>17. ASSUME NEW n \in Names, Made(n)'
       PROVE  Cardinality(GroupsOf(n)') + Cardinality(Binders(n)') + Cardinality(LiveOf(n)') <= minted'[n]
  <2>1. GroupsOf(n)' = GroupsOf(n) /\ LiveOf(n)' = LiveOf(n)
    BY <1>4, <1>9 DEF GroupsOf, LiveOf
  <2>2. Binders(n)' \subseteq Binders(n)
    BY <1>5, <1>9, <1>15, <1>16 DEF Binders, At
  <2>3. CASE n = t
    <3>1. GroupsOf(n) = {} /\ LiveOf(n) = {} /\ Binders(n) = {}
      BY <1>1, <1>10, <1>16, <2>3 DEF Rooted, GroupsOf, LiveOf, Binders
    <3>2. GroupsOf(n)' = {} /\ LiveOf(n)' = {} /\ Binders(n)' = {}
      BY <2>1, <2>2, <3>1
    <3>3. minted'[n] \in Nat
      BY <1>1, <1>4, Types
    <3> QED BY <3>2, <3>3, FS_EmptySet
  <2>4. CASE n # t
    BY <1>1, <1>4, <1>10, <1>17, <2>1, <2>2, <2>4, AccountStands
  <2> QED BY <2>3, <2>4
<1>18. Paid'
  BY <1>17 DEF Paid
<1> QED BY <1>5, <1>11, <1>12, <1>13, <1>14, <1>15, <1>18, ChangeKeeps

LEMMA ForgetKeeps == ASSUME Governed, NEW h \in Handlers, Forget(h) PROVE Governed'
<1>1. TypeOK /\ Rooted /\ Tasked /\ Paid
  BY DEF Governed
<1>2. PICK t \in Names : t = Mine(h)
  BY <1>1, Types DEF Forget, Mine, Ctx, Update, Resolutions
<1>3. /\ task' \in [Handlers -> Update]
      /\ task'[h] = Nobody /\ \A g \in Handlers \ {h} : task'[g] = task[g]
  BY <1>1, Ends DEF Forget
<1>4. /\ team' = [team EXCEPT ![t] = Deleted]
      /\ seat' = [seat EXCEPT ![t] = [u \in Users |-> "none"]]
      /\ chat' = [c \in Chats |-> IF chat[c] = t THEN None ELSE chat[c]]
      /\ primary' = [primary EXCEPT ![t] = None] /\ code' = [code EXCEPT ![t] = NoCodes]
      /\ minted' = [minted EXCEPT ![t] = 0]
      /\ cache' = Forgotten({t}) /\ settled' = 0 /\ ops' \in 0 .. MaxOps
  BY <1>1, <1>2, Types, TeamsGiven DEF Forget, Changed, Counted, Acting
<1>5. /\ team' \in [Names -> TeamRow] /\ ~Made(t)' /\ team'[t].status # "none"
      /\ \A n \in Names \ {t} : team'[n] = team[n]
  BY <1>1, <1>2, <1>4, Types DEF TeamRow, Deleted, Made
<1>6. /\ seat' \in [Names -> [Users -> Roles]] /\ \A u \in Users : seat'[t][u] = "none"
      /\ \A n \in Names \ {t} : seat'[n] = seat[n]
  BY <1>1, <1>2, <1>4, Types DEF Roles
<1>7. /\ chat' \in [Chats -> Names \cup {None}] /\ primary' \in [Names -> Chats \cup {None}]
      /\ \A c \in Chats : chat'[c] = IF chat[c] = t THEN None ELSE chat[c]
  BY <1>1, <1>2, <1>4, Types
<1>8. /\ code' \in [Names -> [Users -> {"none", "live", "used"}]] /\ \A u \in Users : code'[t][u] = "none"
      /\ \A n \in Names \ {t} : code'[n] = code[n]
  BY <1>1, <1>2, <1>4, Types DEF NoCodes
<1>9. minted' \in [Names -> Nat] /\ \A n \in Names \ {t} : minted'[n] = minted[n]
  BY <1>1, <1>2, <1>4, Types
<1>10. cache' \in [Chats \X Users -> Entries \cup {None}] /\ Wanes
  BY <1>1, <1>4, ForgottenIsLess DEF Wanes
<1>11. TypeOK'
  <2>1. settled' = 0 /\ ops' \in 0 .. MaxOps
    BY <1>4
  <2> QED BY <1>3, <2>1, <1>5, <1>6, <1>7, <1>8, <1>9, <1>10, TeamsGiven DEF TypeOK, Update, Places, TeamRow
<1>12. \A n \in Names \ {t} : Made(n)' <=> Made(n)
  BY <1>5 DEF Made
<1>13. Rooted'
  <2>1. \A n \in Names, u \in Users : seat'[n][u] # "none" => Made(n)'
    BY <1>1, <1>6, <1>12 DEF Rooted
  <2>2. \A n \in Names, g \in Groups : chat'[g] = n => Made(n)'
    BY <1>1, <1>2, <1>7, <1>12, TeamsGiven DEF Rooted, Chats
  <2>3. \A n \in Names, u \in Users : code'[n][u] = "live" => Made(n)'
    BY <1>1, <1>8, <1>12 DEF Rooted
  <2>4. \A n \in Names, u, v \in Users : seat'[n][u] = "owner" /\ seat'[n][v] = "owner" => u = v
    BY <1>1, <1>6 DEF Rooted
  <2> QED BY <2>1, <2>2, <2>3, <2>4 DEF Rooted
<1>14. Young'
  BY <1>4, <1>11, NewRowsAreYoung
<1>15. Grows
  BY <1>5, <1>6 DEF Grows
<1>16. Ready(h)' /\ task'[h].pc = "idle"
  BY <1>3 DEF Ready, Nobody, Told, Ctx, Idle, At
<1>17. \A g \in Handlers : At(g, "bind") => task[g].chat \in Groups
  BY <1>1, AtPlace DEF At
<1>18. ASSUME NEW n \in Names, Made(n)'
       PROVE  Cardinality(GroupsOf(n)') + Cardinality(Binders(n)') + Cardinality(LiveOf(n)') <= minted'[n]
  <2>1. n # t /\ Made(n) /\ minted'[n] = minted[n]
    BY <1>5, <1>9, <1>12, <1>18
  <2>2. GroupsOf(n)' \subseteq GroupsOf(n)
    BY <1>7, TeamsGiven DEF GroupsOf, Chats
  <2>3. Binders(n)' \subseteq Binders(n)
    BY <1>3, <1>7, <1>16, <1>17, <2>1 DEF Binders, At, Chats
  <2>4. LiveOf(n)' \subseteq LiveOf(n)
    BY <1>8, <2>1 DEF LiveOf
  <2> QED BY <1>1, <2>1, <2>2, <2>3, <2>4, AccountStands
<1>19. Paid'
  BY <1>18 DEF Paid
<1> QED BY <1>3, <1>10, <1>11, <1>13, <1>14, <1>15, <1>16, <1>19, ChangeKeeps

-----------------------------------------------------------------------------
(* The invariant, and what it gives.                                       *)
LEMMA GovernedInit == Init => Governed
<1> SUFFICES ASSUME Init PROVE Governed
  OBVIOUS
<1>1. Nobody \in Update /\ Unmade \in TeamRow /\ NoCodes \in [Users -> {"none", "live", "used"}]
  BY DEF Nobody, Update, Places, Unmade, TeamRow, NoCodes
<1>2. TypeOK
  <2>1. settled \in 0 .. TTL /\ ops \in 0 .. MaxOps
    BY TeamsGiven DEF Init
  <2>2. seat \in [Names -> [Users -> Roles]]
    BY DEF Init, Roles
  <2> QED BY <1>1, <2>1, <2>2, Types DEF Init
<1>3. \A h \in Handlers : Ready(h) /\ task[h].pc = "idle"
  BY DEF Init, Ready, Nobody, Told, Ctx, Idle, At
<1>4. Tasked /\ OwnersHold
  BY <1>3, AllReady DEF Init, Told
<1>5. Rooted
  BY TeamsGiven DEF Init, Rooted, NoCodes, Chats
<1>6. Young
  BY <1>3 DEF Init, Young, At
<1>7. Paid
  BY DEF Init, Paid, Made, Unmade
<1> QED BY <1>2, <1>4, <1>5, <1>6, <1>7 DEF Governed

LEMMA GovernedStep == Governed /\ [Next]_vars => Governed'
<1> SUFFICES ASSUME Governed, [Next]_vars PROVE Governed'
  OBVIOUS
<1>1. ASSUME NEW h \in Handlers, Resolve(h) PROVE Governed'
  BY <1>1, RecallKeeps, LookUpKeeps, RememberKeeps, RefuseKeeps DEF Resolve
<1>2. ASSUME NEW h \in Handlers, SignUp(h) PROVE Governed'
  BY <1>2, BeginKeeps, CreateTeamKeeps, KeysKeep, ForgetKeeps DEF SignUp
<1>3. ASSUME NEW h \in Handlers, Place(h) PROVE Governed'
  BY <1>3, MintCodeKeeps, BeginKeeps, RedeemKeeps, RefuseKeeps, SetupAgainKeeps, BindGroupKeeps, UseKeeps
     DEF Place
<1>4. ASSUME NEW h \in Handlers, Members(h) PROVE Governed'
  BY <1>4, InviteKeeps, SeatsKeep DEF Members
<1>5. CASE Demote \/ Platform \/ Tick \/ Lapse
  BY <1>5, DemoteKeeps, PlatformKeeps, AgesKeep, LapseKeeps
<1>6. CASE UNCHANGED vars
  <2>1. UNCHANGED <<team, seat, chat, settled, minted, code, cache, task, primary, ops>>
    BY <1>6 DEF vars
  <2>2. primary' \in [Names -> Chats \cup {None}] /\ ops' \in 0 .. MaxOps /\ task' \in [Handlers -> Update]
    BY <2>1, Types DEF Governed
  <2> PICK h : h \notin Handlers
    BY NoSetContainsEverything
  <2> QED BY <2>1, <2>2, QuietKeeps
<1> QED BY <1>1, <1>2, <1>3, <1>4, <1>5, <1>6 DEF Next

LEMMA AlwaysGoverned == SideBySide => []Governed
<1>1. Spec => []Governed
  BY GovernedInit, GovernedStep, PTL DEF Spec
<1> QED BY <1>1, TeamSteps, PTL

\* What the invariant says of groups: each was paid for, and none belongs to a team that
\* is gone.
LEMMA EveryGroupIsPaidFor == Governed => TypeOK /\ OneGroupPerCode
<1> SUFFICES ASSUME Governed, NEW t \in Names PROVE Cardinality({g \in Groups : chat[g] = t}) <= minted[t]
  BY DEF Governed, OneGroupPerCode
<1>1. {g \in Groups : chat[g] = t} = GroupsOf(t) /\ minted[t] \in Nat
  BY Types DEF Governed, GroupsOf
<1>2. CASE Made(t)
  <2>1. Cardinality(GroupsOf(t)) + Cardinality(Binders(t)) + Cardinality(LiveOf(t)) <= minted[t]
    BY <1>2 DEF Governed, Paid
  <2>2. Cardinality(GroupsOf(t)) <= minted[t]
    BY <1>1, <2>1, PartsCount
  <2> QED BY <1>1, <2>2
<1>3. CASE ~Made(t)
  <2>1. GroupsOf(t) = {}
    BY <1>3 DEF Governed, Rooted, GroupsOf
  <2> QED BY <1>1, <2>1, FS_EmptySet
<1> QED BY <1>2, <1>3

LEMMA AGroupStaysOrItsTeamIsGone ==
    ASSUME Governed, [Next]_vars, NEW g \in Groups, chat[g] # None, chat'[g] # chat[g]
    PROVE  team'[chat[g]] = Deleted
<1>1. TypeOK /\ Tasked /\ g \in Chats /\ g \notin Users
  BY TeamsGiven DEF Governed, Chats
<1>2. PICK h \in Handlers : CreateTeam(h) \/ BindGroup(h) \/ Use(h) \/ Forget(h)
  BY DEF Next, vars, rows, Resolve, SignUp, Place, Members, Demote, Platform, Tick, Lapse, Recall, LookUp, Remember,
         Refuse, Start, CheckKey, StoreKey, Revoke, MintCode, Probe, Redeem, BadCode, SetupAgain, Invite, Seat, Unseat
<1>3. CASE CreateTeam(h)
  <2>1. task[h].chat \in Users
    BY <1>1, <1>3 DEF CreateTeam, Tasked, Dm, Private
  <2> QED BY <1>1, <1>3, <2>1, Types DEF CreateTeam, Chats
<1>4. CASE BindGroup(h)
  <2>1. chat' = chat \/ (MayBind(task[h].chat, task[h].subject) /\ chat' = [chat EXCEPT ![task[h].chat] = task[h].subject])
    BY <1>4 DEF BindGroup
  <2> QED BY <1>1, <2>1, Types DEF MayBind
<1>5. CASE Use(h)
  <2>1. task[h].chat \in Users
    BY <1>5 DEF Use, Dm, Private
  <2> QED BY <1>1, <1>5, <2>1, Types DEF Use, Rebound
<1>6. CASE Forget(h)
  <2>1. chat[g] = Mine(h) /\ chat[g] \in Names
    BY <1>1, <1>6, Types DEF Forget
  <2> QED BY <1>1, <1>6, <2>1, Types DEF Forget
<1> QED BY <1>2, <1>3, <1>4, <1>5, <1>6

\* No team has more groups than it was given codes, and no group that has a team is
\* moved: however many /setup, /use and /team are under way, with codes that lapse or
\* are redeemed by the wrong person in between (consume_enrollment_token, bind_chat).
THEOREM GroupsArePaidForAndStay == SideBySide => GroupsKeepTheirTeam
<1> DEFINE Stays == \A g \in Groups : chat[g] # None => chat'[g] = chat[g] \/ team'[chat[g]] = Deleted
<1>1. Governed /\ [Next]_vars => [Stays]_vars
  BY AGroupStaysOrItsTeamIsGone
<1>2. [][Stays]_vars => GroupsStayPut
  BY PTL DEF GroupsStayPut
<1> HIDE DEF Stays
<1>3. SideBySide => []Governed /\ [][Next]_vars
  BY AlwaysGoverned, TeamSteps, PTL DEF Spec
<1>4. SideBySide => [][Stays]_vars
  BY <1>1, <1>3, PTL
<1> QED BY <1>2, <1>4, AlwaysGoverned, EveryGroupIsPaidFor, PTL DEF GroupsKeepTheirTeam

\* A team's owner loses that seat to an owner's own command, or with the team.  The
\* guards of add_member are read before the row is written; that a team has one owner
\* is why what was read still holds then.
THEOREM OwnersAnswerToOwners == SideBySide => OnlyOwnersTouchOwners
<1> DEFINE Owned ==
             \A t \in Names, u \in Users :
                seat[t][u] = "owner" /\ seat'[t][u] # "owner" /\ Made(t)' =>
                   \E h \in Handlers : /\ task[h].pc # "idle" /\ task'[h].pc = "idle"
                                       /\ Ctx(h).team = t /\ seat[t][task[h].user] = "owner"
<1>1. ASSUME Governed, [Next]_vars PROVE [Owned]_vars
  <2> SUFFICES ASSUME NEW t \in Names, NEW u \in Users, seat[t][u] = "owner", seat'[t][u] # "owner", Made(t)'
               PROVE  \E h \in Handlers : /\ task[h].pc # "idle" /\ task'[h].pc = "idle"
                                          /\ Ctx(h).team = t /\ seat[t][task[h].user] = "owner"
    OBVIOUS
  <2>1. TypeOK /\ Rooted /\ Tasked /\ OwnersHold
    BY <1>1 DEF Governed
  <2>2. PICK h \in Handlers : CreateTeam(h) \/ Seat(h) \/ Unseat(h) \/ Forget(h)
    BY <1>1 DEF Next, vars, rows, Resolve, SignUp, Place, Members, Demote, Platform, Tick, Lapse, Recall, LookUp,
           Remember, Refuse, Start, CheckKey, StoreKey, Revoke, MintCode, Probe, Redeem, BadCode, SetupAgain,
           BindGroup, Use, Invite
  <2>3. task'[h] = Nobody /\ task[h].pc # "idle"
    BY <2>1, <2>2, Ends DEF CreateTeam, Seat, Unseat, Forget, Acting, At
  <2>4. task'[h].pc = "idle" /\ Made(t)
    BY <2>1, <2>3 DEF Nobody, Rooted
  <2>5. CASE CreateTeam(h)
    <3>1. PICK n \in Names : seat' = [seat EXCEPT ![n][task[h].user] = "owner"]
      BY <2>5 DEF CreateTeam, Created, Seated
    <3> QED BY <2>1, <3>1, Types
  <2>6. CASE Seat(h)
    <3>1. /\ Mine(h) \in Names /\ task[h].subject \in Users
          /\ At(h, "seat")
      BY <2>1, <2>6, Types DEF Seat, Tasked, At, Mine, Ctx, Update, Resolutions
    <3>2. PICK role \in {"member", "admin"} :
            seat' = seat \/ seat' = [seat EXCEPT ![Mine(h)][task[h].subject] = role]
      BY <2>6 DEF Seat, Seated
    <3>3. Mine(h) = t /\ task[h].subject = u
      BY <2>1, <3>1, <3>2, Types
    <3>4. task[h].user = u
      BY <2>1, <3>1, <3>3 DEF OwnersHold
    <3> QED BY <2>3, <2>4, <3>3, <3>4 DEF Mine
  <2>7. CASE Unseat(h)
    <3>1. PICK v \in Users : /\ MayRemove(Mine(h), task[h].user, v)
                             /\ seat' = [seat EXCEPT ![Mine(h)][v] = "none"]
      BY <2>7 DEF Unseat
    <3>2. Mine(h) = t /\ v = u
      BY <2>1, <3>1, Types
    <3>3. seat[t][task[h].user] = "owner"
      BY <3>1, <3>2 DEF MayRemove
    <3> QED BY <2>3, <2>4, <3>2, <3>3 DEF Mine
  <2>8. CASE Forget(h)
    <3>1. Mine(h) = t
      BY <2>1, <2>8, Types DEF Forget
    <3>2. team'[t] = Deleted
      BY <2>1, <2>8, <3>1, Types DEF Forget
    <3> QED BY <3>2 DEF Made, Deleted
  <2> QED BY <2>2, <2>5, <2>6, <2>7, <2>8
<1>2. [][Owned]_vars => OnlyOwnersTouchOwners
  BY PTL DEF OnlyOwnersTouchOwners
<1> HIDE DEF Owned
<1>3. SideBySide => []Governed /\ [][Next]_vars
  BY AlwaysGoverned, TeamSteps, PTL DEF Spec
<1> QED BY <1>1, <1>2, <1>3, PTL

\* A step of one update is not a step of another.
LEMMA OneUpdateAtATime ==
    ASSUME TypeOK, NEW k \in Handlers, Resolve(k) \/ SignUp(k) \/ Place(k) \/ Members(k),
           NEW h \in Handlers, h # k
    PROVE  task'[h] = task[h]
<1>1. CASE Resolve(k)
  BY <1>1, Types DEF Resolve, Recall, LookUp, Remember, Refuse, End
<1>2. CASE SignUp(k)
  BY <1>2, Types DEF SignUp, Start, CreateTeam, CheckKey, StoreKey, Revoke, Forget, End
<1>3. CASE Place(k)
  BY <1>3, Types DEF Place, MintCode, Probe, Redeem, BadCode, SetupAgain, BindGroup, Use, End, ToBind
<1>4. CASE Members(k)
  BY <1>4, Types DEF Members, Invite, Seat, Unseat, End
<1> QED BY <1>1, <1>2, <1>3, <1>4

\* What a handler is told of its sender is what the rows say, unless they changed within
\* the cache's lifetime: the entry it came from says what the rows said when it was
\* read, and whoever read it before the last change remembers it without waiting a tick
\* (_resolve, _remember, forget_cached).
THEOREM StalenessIsBounded == SideBySide => AStaleResolutionIsYoung
<1> DEFINE Recent ==
             \A h \in Handlers :
                /\ task[h].pc \in {"idle", "read"} /\ task'[h].pc = "act"
                /\ task'[h].ctx # Resolved(task'[h].user, task'[h].chat)
                => settled < TTL
<1>1. ASSUME Governed, [Next]_vars PROVE [Recent]_vars
  <2> SUFFICES ASSUME NEW h \in Handlers, task[h].pc \in {"idle", "read"}, task'[h].pc = "act",
                      task'[h].ctx # Resolved(task'[h].user, task'[h].chat), settled >= TTL
               PROVE  FALSE
    <3>1. settled \in Nat /\ TTL \in Nat
      BY <1>1, Types, TeamsGiven DEF Governed
    <3> QED BY <3>1
  <2>1. TypeOK /\ Young /\ Tasked
    BY <1>1 DEF Governed
  <2>2. PICK k \in Handlers : Resolve(k) \/ SignUp(k) \/ Place(k) \/ Members(k)
    BY <1>1 DEF Next, vars, Demote, Platform, Tick, Lapse
  <2>3. CASE k # h
    BY <2>1, <2>2, <2>3, OneUpdateAtATime
  <2>4. CASE Recall(h)
    <3>1. PICK u \in Users, c \in Chats :
            /\ Fresh(cache[<<c, u>>])
            /\ task' = [task EXCEPT ![h] = Asking("act", u, c, Without(cache[<<c, u>>]))]
      BY <2>4 DEF Recall
    <3> DEFINE e == cache[<<c, u>>]
    <3>2. e \in Entries /\ e # None /\ e.age < TTL
      BY <2>1, <3>1, Types DEF Fresh
    <3>3. e.age \in Nat /\ Without(e) \in Resolutions
      BY <3>2, TeamsGiven, RememberedTyped DEF Entries
    <3>4. task'[h].user = u /\ task'[h].chat = c /\ task'[h].ctx = Without(e)
      <4>1. TypeOK /\ "act" \in Places
        BY <2>1 DEF Places
      <4>2. task' = [task EXCEPT ![h] = Asking("act", u, c, Without(e))]
        BY <3>1
      <4> HIDE DEF e
      <4> QED BY <3>3, <4>1, <4>2, TakesUp, ZenonT(60)
    <3>5. settled > e.age
      BY <2>1, <3>2, <3>3, Types, TeamsGiven
    <3>6. Without(e) = Resolved(u, c)
      BY <2>1, <3>2, <3>5 DEF Young
    <3> QED BY <3>4, <3>6
  <2>5. CASE Remember(h)
    <3>1. /\ task'[h].user = task[h].user /\ task'[h].chat = task[h].chat /\ task'[h].ctx = task[h].ctx
      BY <2>1, <2>5, GoesTo DEF Remember, Places
    <3>2. At(h, "read") /\ task[h].user \in Users /\ task[h].chat \in Chats
      BY <2>1, <2>5 DEF Remember, Tasked, Idle, At
    <3>3. settled > 0
      BY <2>1, Types, TeamsGiven
    <3> QED BY <2>1, <3>1, <3>2, <3>3 DEF Young, Ctx
  <2>6. CASE LookUp(h)
    <3>1. PICK u \in Users, c \in Chats : task' = [task EXCEPT ![h] = Asking("read", u, c, Resolved(u, c))]
      BY <2>6 DEF LookUp
    <3>2. Resolved(u, c) \in Resolutions \cup {None}
      BY <1>1, ResolvedTyped DEF Governed
    <3> QED BY <2>1, <3>1, <3>2, TakesUp DEF Places
  <2>7. CASE k = h /\ ~Recall(h) /\ ~Remember(h) /\ ~LookUp(h)
    BY <2>2, <2>7 DEF Resolve, SignUp, Place, Members, At, Refuse, Start, CreateTeam, CheckKey, StoreKey, Revoke,
           Forget, MintCode, Probe, Redeem, BadCode, SetupAgain, BindGroup, Use, Invite, Seat, Unseat, Acting
  <2> QED BY <2>3, <2>4, <2>5, <2>6, <2>7
<1>2. [][Recent]_vars => AStaleResolutionIsYoung
  BY PTL DEF AStaleResolutionIsYoung
<1> HIDE DEF Recent
<1>3. SideBySide => []Governed /\ [][Next]_vars
  BY AlwaysGoverned, TeamSteps, PTL DEF Spec
<1> QED BY <1>1, <1>2, <1>3, PTL

-----------------------------------------------------------------------------
LEMMA CardGiven ==
    MaxTurns \in Nat \ {0} /\ MaxPosts \in Nat \ {0} /\ MaxMishaps \in Nat /\ MaxThrottles \in Nat
BY ConstantsFit DEF Face!StatusCardAssumption

LEMMA CardSteps == SideBySide => Face!Spec
<1>1. Begin => Face!Init
  BY DEF Begin
<1>2. [Step]_<<world, vars, cardVars>> => [Face!Next]_(Face!vars)
  BY DEF Step, Face!vars, cardVars
<1> QED BY <1>1, <1>2, PTL DEF SideBySide, Face!Spec

-----------------------------------------------------------------------------
(* The card.  One task at most has the topic's lock; what it works on is    *)
(* there, and what the machine said last is what it works on.               *)
CardFields == [kind : Face!Kinds, id : {0} \cup Face!Messages, dirty : BOOLEAN, known : BOOLEAN,
               retire : BOOLEAN, shown : Face!Kinds \cup {"none"}, held : BOOLEAN]
Steps == {"free", "supersede", "apply", "flush", "fetch", "persist", "retire", "sync"}
Writing == {"flush", "fetch", "persist", "retire"}

\* Who is where, and with what in hand.
Locked ==
    /\ Face!At("poller", "free") \/ (Face!At("ticker", "free") /\ adopted /\ batch # Face!Absent)
    /\ ~Face!At("ticker", "supersede") /\ ~Face!At("ticker", "apply") /\ ~Face!At("ticker", "sync")
    /\ \A t \in Face!Tasks : Face!At(t, "supersede") => Face!Supersedes(card)
    /\ \A t \in Face!Tasks : at[t].pc \in Writing => Face!Present
    /\ \A t \in Face!Tasks :
          Face!At(t, "fetch") => screen[at[t].id] \in {card.kind, "gone"} /\ at[t].id \in Face!Messages
    /\ \A t \in Face!Tasks : Face!At(t, "persist") => card.id = at[t].id /\ at[t].id \in Face!Messages

\* The machine's word: with the machine until it is handed over, on the card after that.
Spoken == batch # Face!Absent => batch.op \in {"post", "edit", "activity"} /\ batch.kind = turn.phase
Heard == batch = Face!Absent \/ batch.op = "activity" \/ at["poller"].pc \in Writing \cup {"sync"}
Faced == Face!Present /\ card.known /\ Heard => card.kind = turn.phase

\* Until something is lost: the card's message shows what the card last made it show,
\* and a clean card has been shown as it is.
Shown ==
    mishaps = 0 =>
        /\ ~adopted => row = 0 /\ turn.card = 0 /\ card = Face!Absent
        /\ Face!Present => /\ card.known
                           /\ card.id # 0 => screen[card.id] \in {card.shown, "gone"}
                           /\ ~card.dirty => card.id # 0 /\ card.shown = card.kind

Drawable == Face!TypeOK /\ Locked /\ Spoken /\ Faced /\ Shown

LEMMA CardTypes ==
    Face!TypeOK <=>
    /\ turn \in [phase : Face!Kinds, card : {0} \cup Face!Messages] /\ turns \in 0 .. MaxTurns
    /\ row \in {0} \cup Face!Messages
    /\ batch \in {Face!Absent} \cup [op : {"post", "edit", "activity"}, kind : Face!Kinds]
    /\ card \in {Face!Absent} \cup CardFields
    /\ adopted \in BOOLEAN
    /\ at \in [Face!Tasks -> [pc : Steps, id : {0} \cup Face!Messages]]
    /\ screen \in [Face!Messages -> Face!Kinds \cup {"none", "gone"}]
    /\ mishaps \in 0 .. MaxMishaps /\ throttles \in 0 .. MaxThrottles /\ excuses \in Nat
BY DEF Face!TypeOK, CardFields, Steps

LEMMA NoMessageIsZero == 0 \notin Face!Messages /\ Face!Messages \subseteq Nat
BY CardGiven DEF Face!Messages

LEMMA ACardIsSomething == \A c \in CardFields : c # Face!Absent
<1> SUFFICES ASSUME NEW c \in CardFields, c = Face!Absent PROVE FALSE
  OBVIOUS
<1>1. DOMAIN c = {"kind", "id", "dirty", "known", "retire", "shown", "held"}
  BY DEF CardFields
<1>2. DOMAIN Face!Absent = {"op"}
  BY DEF Face!Absent
<1> QED BY <1>1, <1>2

LEMMA ABatchIsSomething == \A b \in [op : {"post", "edit", "activity"}, kind : Face!Kinds] : b # Face!Absent
BY DEF Face!Absent

LEMMA Goes ==
    ASSUME Face!TypeOK, NEW t \in Face!Tasks, NEW pc \in Steps, Face!To(t, pc)
    PROVE  /\ at' \in [Face!Tasks -> [pc : Steps, id : {0} \cup Face!Messages]]
           /\ at'[t].pc = pc /\ at'[t].id = at[t].id
           /\ \A u \in Face!Tasks \ {t} : at'[u] = at[u]
BY CardTypes DEF Face!To

\* What is there is a card, field by field.
LEMMA CardIsThere ==
    ASSUME Face!TypeOK, Face!Present PROVE card \in CardFields
BY CardTypes DEF Face!Present

\* What a task may change of the card, field by field.
LEMMA Redrawn ==
    ASSUME NEW c \in CardFields, NEW id \in {0} \cup Face!Messages, NEW b \in BOOLEAN
    PROVE  /\ LET d == [c EXCEPT !.id = id] IN
                 /\ d \in CardFields /\ d.id = id /\ d.kind = c.kind
                 /\ d.dirty = c.dirty /\ d.known = c.known /\ d.shown = c.shown
           /\ LET d == [c EXCEPT !.dirty = b] IN
                 /\ d \in CardFields /\ d.id = c.id /\ d.kind = c.kind
                 /\ d.dirty = b /\ d.known = c.known /\ d.shown = c.shown
           /\ LET d == [c EXCEPT !.held = b] IN
                 /\ d \in CardFields /\ d.id = c.id /\ d.kind = c.kind
                 /\ d.dirty = c.dirty /\ d.known = c.known /\ d.shown = c.shown
           /\ LET d == [c EXCEPT !.known = b] IN
                 /\ d \in CardFields /\ d.id = c.id /\ d.kind = c.kind
                 /\ d.dirty = c.dirty /\ d.known = b /\ d.shown = c.shown
           /\ LET d == [c EXCEPT !.retire = b] IN
                 /\ d \in CardFields /\ d.id = c.id /\ d.kind = c.kind
                 /\ d.dirty = c.dirty /\ d.known = c.known /\ d.shown = c.shown
           /\ LET d == [c EXCEPT !.id = id, !.shown = c.kind, !.dirty = FALSE] IN
                 /\ d \in CardFields /\ d.id = id /\ d.kind = c.kind
                 /\ ~d.dirty /\ d.known = c.known /\ d.shown = c.kind
BY DEF CardFields

LEMMA BlankIsACard ==
    ASSUME NEW id \in {0} \cup Face!Messages
    PROVE  /\ Face!Blank(id) \in CardFields /\ Face!Blank(id).id = id
           /\ Face!Blank(id).kind = "queued" /\ Face!Blank(id).dirty
           /\ Face!Blank(id).known /\ Face!Blank(id).shown = "none"
BY DEF Face!Blank, CardFields, Face!Kinds, Face!Terminal

LEMMA AppliedIs ==
    ASSUME Face!TypeOK, batch # Face!Absent
    PROVE  LET d == Face!Marked(Face!Applied(card)) IN
           /\ card = Face!Absent /\ batch.op = "activity" => d = Face!Absent
           /\ card # Face!Absent \/ batch.op # "activity" =>
                 /\ d \in CardFields /\ d.dirty
                 /\ batch.op # "activity" => d.kind = batch.kind /\ d.known
                 /\ batch.op = "activity" => d.kind = card.kind /\ d.known = card.known
                 /\ batch.op = "post" => d.id = 0
                 /\ batch.op # "post" => d.id = (IF card = Face!Absent THEN 0 ELSE card.id)
                 /\ d.shown = (IF card = Face!Absent THEN "none" ELSE card.shown)
<1>1. batch.op \in {"post", "edit", "activity"} /\ batch.kind \in Face!Kinds
  BY CardTypes
<1>2. PICK base : base = Face!CardFor(card)
  OBVIOUS
<1>3. /\ base \in CardFields /\ base.id = (IF card = Face!Absent THEN 0 ELSE card.id)
      /\ base.shown = (IF card = Face!Absent THEN "none" ELSE card.shown)
      /\ card # Face!Absent => base = card
  BY <1>2, CardTypes, BlankIsACard DEF Face!CardFor
<1>4. \A d \in CardFields : /\ Face!Marked(d) \in CardFields /\ Face!Marked(d).dirty = d.dirty
                            /\ Face!Marked(d).kind = d.kind
                            /\ Face!Marked(d).known = d.known /\ Face!Marked(d).id = d.id
                            /\ Face!Marked(d).shown = d.shown
  BY ACardIsSomething, <1>1 DEF Face!Marked, CardFields
<1>5. CASE batch.op = "post"
  <2>1. Face!Applied(card) = [base EXCEPT !.id = 0, !.kind = batch.kind, !.dirty = TRUE, !.known = TRUE, !.retire = FALSE]
    BY <1>2, <1>5 DEF Face!Applied
  <2>2. /\ Face!Applied(card) \in CardFields /\ Face!Applied(card).dirty
        /\ Face!Applied(card).kind = batch.kind
        /\ Face!Applied(card).known /\ Face!Applied(card).id = 0
        /\ Face!Applied(card).shown = base.shown
    BY <1>1, <1>3, <2>1 DEF CardFields
  <2> QED BY <1>3, <1>4, <1>5, <2>2
<1>6. CASE batch.op = "edit"
  <2>1. Face!Applied(card) = [base EXCEPT !.kind = batch.kind, !.dirty = TRUE, !.known = TRUE]
    BY <1>2, <1>6 DEF Face!Applied
  <2>2. /\ Face!Applied(card) \in CardFields /\ Face!Applied(card).dirty
        /\ Face!Applied(card).kind = batch.kind
        /\ Face!Applied(card).known /\ Face!Applied(card).id = base.id
        /\ Face!Applied(card).shown = base.shown
    BY <1>1, <1>3, <2>1 DEF CardFields
  <2> QED BY <1>3, <1>4, <1>6, <2>2
<1>7. CASE batch.op = "activity"
  <2>1. Face!Applied(card) = IF card = Face!Absent THEN Face!Absent ELSE [card EXCEPT !.dirty = TRUE]
    BY <1>7 DEF Face!Applied
  <2>2. CASE card = Face!Absent
    BY <1>7, <2>1, <2>2 DEF Face!Marked
  <2>3. CASE card # Face!Absent
    <3> DEFINE e == [card EXCEPT !.dirty = TRUE]
    <3>1. card \in CardFields
      BY <1>3, <2>3
    <3>2. /\ e \in CardFields /\ e.id = card.id /\ e.kind = card.kind /\ e.dirty = TRUE
          /\ e.known = card.known
          /\ e.shown = card.shown
      BY <3>1, NoMessageIsZero, Redrawn
    <3>3. Face!Applied(card) = e
      BY <2>1, <2>3
    <3> HIDE DEF e
    <3> QED BY <1>4, <1>7, <2>3, <3>2, <3>3
  <2> QED BY <2>2, <2>3
<1> QED BY <1>1, <1>5, <1>6, <1>7


\* What may be with the machine while nobody writes: nothing another task has in hand.
LEMMA MachineDraws ==
    ASSUME Drawable, batch = Face!Absent, Face!At("poller", "free"),
           UNCHANGED <<card, adopted, at, screen, mishaps, throttles>>,
           turn' \in [phase : Face!Kinds, card : {0} \cup Face!Messages], turns' \in 0 .. MaxTurns,
           row' \in {0} \cup Face!Messages, excuses' \in Nat,
           batch' \in {Face!Absent} \cup [op : {"post", "edit", "activity"}, kind : Face!Kinds],
           batch' # Face!Absent => batch'.kind = turn'.phase,
           (batch' # Face!Absent /\ batch'.op # "activity") \/ turn' = turn,
           turn.card = 0 /\ row = 0 => turn'.card = 0 /\ row' = 0
    PROVE  Drawable'
<1>1. Face!TypeOK /\ Locked /\ Faced /\ Shown
  BY DEF Drawable
<1>2. Face!TypeOK'
  BY <1>1, CardTypes DEF Face!TypeOK, CardFields, Steps
<1>3. Locked'
  <2>1. ~Face!At("poller", "supersede") /\ ~Face!At("ticker", "supersede")
    BY <1>1 DEF Locked, Face!At
  <2> QED BY <1>1, <2>1 DEF Locked, Face!At, Writing, Face!Present, Face!Tasks
<1>4. Spoken'
  BY DEF Spoken
<1>5. Faced'
  <2>1. at["poller"].pc \notin Writing \cup {"sync"}
    BY DEF Face!At, Writing
  <2>2. Heard' => turn' = turn
    BY <2>1 DEF Heard
  <2> QED BY <1>1, <2>2 DEF Faced, Face!Present, Heard
<1>6. Shown'
  BY <1>1 DEF Shown, Face!Present
<1> QED BY <1>2, <1>3, <1>4, <1>5, <1>6 DEF Drawable

LEMMA StepsDraw ==
    ASSUME Drawable,
           Face!Wake \/ Face!Prompt \/ Face!Witness \/ Face!Conclude \/ Face!Die
    PROVE  Drawable'
<1>1. Face!TypeOK
  BY DEF Drawable
<1>2. PICK phase \in Face!Kinds, id \in {0} \cup Face!Messages, saved \in {0} \cup Face!Messages :
        Face!Step(phase, id, saved) /\ saved \in {0, turn.card}
  BY <1>1, CardTypes DEF Face!Wake, Face!Prompt, Face!Witness, Face!Conclude, Face!Die, Face!Kinds,
         Face!Terminal
<1>3. /\ batch = Face!Absent /\ Face!At("poller", "free")
      /\ UNCHANGED <<card, adopted, at, screen, mishaps, throttles>>
      /\ turn' = [phase |-> phase, card |-> saved] /\ row' = saved /\ batch' = Face!Say(phase, id)
      /\ excuses' \in Nat /\ turns' \in 0 .. MaxTurns
  BY <1>1, <1>2, CardTypes, CardGiven DEF Face!Step, Face!Excuse, Face!Wake, Face!Prompt, Face!Witness,
         Face!Conclude, Face!Die
<1>4. /\ turn' \in [phase : Face!Kinds, card : {0} \cup Face!Messages] /\ turn'.phase = phase
      /\ turn'.card = saved
      /\ row' \in {0} \cup Face!Messages
  BY <1>3
<1>5. /\ batch' \in [op : {"post", "edit", "activity"}, kind : Face!Kinds] /\ batch'.kind = phase
      /\ batch'.op # "activity"
  BY <1>3 DEF Face!Say
<1>6. batch' # Face!Absent
  BY <1>5, ABatchIsSomething
<1> QED BY <1>2, <1>3, <1>4, <1>5, <1>6, MachineDraws

LEMMA PollDraws == ASSUME Drawable, Face!Poll PROVE Drawable'
<1>1. Face!TypeOK
  BY DEF Drawable
<1>2. /\ batch = Face!Absent /\ Face!At("poller", "free")
      /\ UNCHANGED <<turn, turns, card, adopted, at, screen, mishaps, throttles>>
      /\ row' = turn.card /\ excuses' \in Nat /\ row' \in {0} \cup Face!Messages
      /\ turn' \in [phase : Face!Kinds, card : {0} \cup Face!Messages] /\ turns' \in 0 .. MaxTurns
  BY <1>1, CardTypes DEF Face!Poll, Face!Excuse
<1>3. /\ batch' \in {Face!Absent} \cup [op : {"post", "edit", "activity"}, kind : Face!Kinds]
      /\ batch' # Face!Absent => batch'.kind = turn.phase
  BY <1>1, CardTypes DEF Face!Poll
<1> QED BY <1>2, <1>3, MachineDraws

\* A task that writes: what it may change, and what must hold then.
LEMMA WriterDraws ==
    ASSUME Drawable, UNCHANGED <<turn, turns, batch>>, row' \in {0} \cup Face!Messages,
           adopted' \in BOOLEAN,
           card' \in {Face!Absent} \cup CardFields,
           at' \in [Face!Tasks -> [pc : Steps, id : {0} \cup Face!Messages]],
           screen' \in [Face!Messages -> Face!Kinds \cup {"none", "gone"}],
           mishaps' \in 0 .. MaxMishaps, throttles' \in 0 .. MaxThrottles, excuses' \in Nat,
           Locked', Faced', Shown'
    PROVE  Drawable'
<1>1. Face!TypeOK' /\ Spoken'
  BY CardTypes DEF Drawable, Face!TypeOK, CardFields, Steps, Spoken
<1> QED BY <1>1 DEF Drawable

LEMMA EnterDraws == ASSUME Drawable, Face!Enter PROVE Drawable'
<1>1. Face!TypeOK /\ Locked /\ Spoken /\ Faced /\ Shown
  BY DEF Drawable
<1>2. /\ UNCHANGED <<turn, turns, row, batch, screen, mishaps, throttles, excuses>> /\ adopted' = TRUE
      /\ card' = Face!Adopt
      /\ batch # Face!Absent /\ at["poller"].pc = "free" /\ at["ticker"].pc = "free"
  BY DEF Face!Enter, Face!At, Face!LockFree, Face!Tasks
<1>3. card' = card \/ (mishaps # 0 /\ card' \in CardFields /\ ~card'.known)
  <2>1. mishaps = 0 /\ ~adopted => row = 0
    BY <1>1 DEF Shown
  <2>2. row # 0 => [Face!Blank(row) EXCEPT !.known = FALSE] \in CardFields /\ ~[Face!Blank(row) EXCEPT !.known = FALSE].known
    BY <1>1, CardTypes, BlankIsACard, Redrawn
  <2> QED BY <1>2, <2>1, <2>2 DEF Face!Adopt
<1>4. PICK pc \in {"supersede", "apply"} : Face!To("poller", pc) /\ (pc = "supersede" => Face!Supersedes(card'))
  BY DEF Face!Enter
<1>5. /\ at' \in [Face!Tasks -> [pc : Steps, id : {0} \cup Face!Messages]]
      /\ at'["poller"].pc = pc /\ at'["ticker"] = at["ticker"]
  BY <1>1, <1>4, Goes DEF Face!Tasks, Steps
<1>6. Locked'
  BY <1>2, <1>4, <1>5 DEF Locked, Face!At, Writing, Face!Tasks, Face!Supersedes
<1>7. Faced'
  BY <1>1, <1>2, <1>3, <1>4, <1>5 DEF Faced, Heard, Face!Present, Writing
<1>8. Shown'
  BY <1>1, <1>2, <1>3 DEF Shown, Face!Present
<1>9. card' \in {Face!Absent} \cup CardFields /\ row' \in {0} \cup Face!Messages
      /\ screen' \in [Face!Messages -> Face!Kinds \cup {"none", "gone"}]
      /\ mishaps' \in 0 .. MaxMishaps /\ throttles' \in 0 .. MaxThrottles /\ excuses' \in Nat
      /\ adopted' \in BOOLEAN
  BY <1>1, <1>2, <1>3, CardTypes
<1> QED BY <1>2, <1>5, <1>6, <1>7, <1>8, <1>9, WriterDraws


LEMMA SupersedeDraws == ASSUME Drawable, Face!Supersede \/ Face!SupersedeRefused PROVE Drawable'
<1>1. Face!TypeOK /\ Locked /\ Spoken /\ Faced /\ Shown
  BY DEF Drawable
<1>2. /\ UNCHANGED <<turn, turns, row, batch, card, adopted, throttles>>
      /\ at["poller"].pc = "supersede" /\ Face!To("poller", "apply")
  BY DEF Face!Supersede, Face!SupersedeRefused, Face!At
<1>3. /\ card \in CardFields /\ card.id \in Face!Messages
      /\ at["ticker"].pc = "free" /\ adopted /\ batch # Face!Absent
  <2>1. card # Face!Absent /\ card.id # 0
    BY <1>1, <1>2 DEF Locked, Face!Supersedes, Face!At, Face!Tasks
  <2>2. card \in CardFields
    BY <1>1, <2>1, CardTypes
  <2>3. card.id \in {0} \cup Face!Messages
    BY <2>2 DEF CardFields
  <2> QED BY <1>1, <1>2, <2>1, <2>2, <2>3 DEF Locked, Face!At
<1>4. /\ at' \in [Face!Tasks -> [pc : Steps, id : {0} \cup Face!Messages]]
      /\ at'["poller"].pc = "apply" /\ at'["ticker"] = at["ticker"]
  BY <1>1, <1>2, Goes DEF Face!Tasks, Steps
<1>5. screen' = screen \/ screen' = [screen EXCEPT ![card.id] = "gone"]
  BY DEF Face!Supersede, Face!SupersedeRefused
<1>6. screen' \in [Face!Messages -> Face!Kinds \cup {"none", "gone"}]
      /\ screen'[card.id] \in {screen[card.id], "gone"}
  BY <1>1, <1>3, <1>5, CardTypes
<1>7. /\ row' \in {0} \cup Face!Messages /\ adopted' \in BOOLEAN
      /\ card' \in {Face!Absent} \cup CardFields
      /\ mishaps' \in 0 .. MaxMishaps /\ throttles' \in 0 .. MaxThrottles /\ excuses' \in Nat
      /\ mishaps' = 0 => mishaps = 0
  BY <1>1, <1>2, CardTypes, CardGiven DEF Face!Supersede, Face!SupersedeRefused, Face!Excuse
<1>8. Locked'
  BY <1>2, <1>3, <1>4 DEF Locked, Face!At, Writing, Face!Tasks
<1>9. Faced'
  BY <1>1, <1>2, <1>3, <1>4 DEF Faced, Heard, Face!Present, Writing
<1>10. Shown'
  BY <1>1, <1>2, <1>3, <1>6, <1>7 DEF Shown, Face!Present
<1> QED BY <1>2, <1>4, <1>6, <1>7, <1>8, <1>9, <1>10, WriterDraws

LEMMA ApplyDraws == ASSUME Drawable, Face!Apply PROVE Drawable'
<1>1. Face!TypeOK /\ Locked /\ Spoken /\ Faced /\ Shown
  BY DEF Drawable
<1>2. /\ UNCHANGED <<turn, turns, row, batch, adopted, screen, mishaps, throttles, excuses>>
      /\ at["poller"].pc = "apply" /\ card' = Face!Marked(Face!Applied(card))
      /\ at["ticker"].pc = "free" /\ adopted /\ batch # Face!Absent
  BY <1>1 DEF Face!Apply, Face!At, Locked
<1>3. PICK pc \in {"sync", "flush"} : Face!To("poller", pc) /\ (pc = "flush" => card' # Face!Absent)
  BY DEF Face!Apply
<1>4. /\ at' \in [Face!Tasks -> [pc : Steps, id : {0} \cup Face!Messages]]
      /\ at'["poller"].pc = pc /\ at'["ticker"] = at["ticker"]
  BY <1>1, <1>3, Goes DEF Face!Tasks, Steps
<1>5. Locked'
  BY <1>2, <1>3, <1>4 DEF Locked, Face!At, Writing, Face!Tasks, Face!Present
<1>6. /\ card = Face!Absent /\ batch.op = "activity" => card' = Face!Absent
      /\ card # Face!Absent \/ batch.op # "activity" =>
            /\ card' \in CardFields /\ card'.dirty
            /\ batch.op # "activity" => card'.kind = batch.kind /\ card'.known
            /\ batch.op = "activity" => card'.kind = card.kind /\ card'.known = card.known
            /\ batch.op = "post" => card'.id = 0
            /\ batch.op # "post" => card'.id = (IF card = Face!Absent THEN 0 ELSE card.id)
            /\ card'.shown = (IF card = Face!Absent THEN "none" ELSE card.shown)
  BY <1>1, <1>2, AppliedIs
<1>7. batch.op \in {"post", "edit", "activity"} /\ batch.kind = turn.phase
  BY <1>1, <1>2, CardTypes DEF Spoken
<1>8. card' \in {Face!Absent} \cup CardFields
  BY <1>6
<1>9. Faced'
  BY <1>1, <1>2, <1>6, <1>7 DEF Faced, Heard, Face!Present
<1>10. Shown'
  BY <1>1, <1>2, <1>6, <1>7 DEF Shown, Face!Present
<1>11. /\ row' \in {0} \cup Face!Messages /\ adopted' \in BOOLEAN
       /\ screen' \in [Face!Messages -> Face!Kinds \cup {"none", "gone"}]
      /\ mishaps' \in 0 .. MaxMishaps /\ throttles' \in 0 .. MaxThrottles /\ excuses' \in Nat
  BY <1>1, <1>2, CardTypes
<1> QED BY <1>2, <1>4, <1>5, <1>8, <1>9, <1>10, <1>11, WriterDraws


LEMMA TheOtherWaits ==
    ASSUME Locked, NEW t \in Face!Tasks,
           at[t].pc # "free"
    PROVE  \A u \in Face!Tasks \ {t} : at[u].pc = "free"
BY DEF Locked, Face!At, Face!Tasks

\* A task with the lock works on the card, and goes on to another step of its send.
LEMMA TaskDraws ==
    ASSUME Drawable, Face!Present, UNCHANGED <<turn, turns, batch, adopted>>, NEW t \in Face!Tasks,
           NEW pc \in Writing,
           at' \in [Face!Tasks -> [pc : Steps, id : {0} \cup Face!Messages]], at'[t].pc = pc,
           \A u \in Face!Tasks \ {t} : at'[u] = at[u] /\ at[u].pc = "free",
           t = "poller" => at[t].pc \in Writing,
           card' \in CardFields, card'.kind = card.kind, card'.known = card.known,
           row' \in {0} \cup Face!Messages,
           screen' \in [Face!Messages -> Face!Kinds \cup {"none", "gone"}],
           mishaps' \in 0 .. MaxMishaps, throttles' \in 0 .. MaxThrottles, excuses' \in Nat,
           pc = "fetch" => at'[t].id \in Face!Messages /\ screen'[at'[t].id] \in {card.kind, "gone"},
           pc = "persist" => at'[t].id \in Face!Messages /\ card'.id = at'[t].id,
           mishaps' = 0 => /\ mishaps = 0
                           /\ card'.id # 0 => screen'[card'.id] \in {card'.shown, "gone"}
                           /\ ~card'.dirty => card'.id # 0 /\ card'.shown = card'.kind
    PROVE  Drawable'
<1>1. Face!TypeOK /\ Locked /\ Spoken /\ Faced /\ Shown
  BY DEF Drawable
<1>2. card' # Face!Absent
  BY ACardIsSomething
<1>3. Locked'
  BY <1>1, <1>2 DEF Locked, Face!At, Writing, Face!Tasks, Face!Present
<1>4. Heard' => Heard
  BY DEF Heard, Writing, Face!Tasks
<1>5. Faced'
  BY <1>1, <1>4 DEF Faced, Face!Present
<1>6. Shown'
  BY <1>1, <1>2 DEF Shown, Face!Present
<1> QED BY <1>1, <1>3, <1>5, <1>6, WriterDraws, CardTypes

\* What is kept of the card while its lock is.
LEMMA CardInHand ==
    ASSUME Drawable, NEW t \in Face!Tasks, at[t].pc \in Writing
    PROVE  /\ Face!Present /\ card \in CardFields /\ adopted \in BOOLEAN
           /\ row \in {0} \cup Face!Messages
           /\ screen \in [Face!Messages -> Face!Kinds \cup {"none", "gone"}]
           /\ mishaps \in 0 .. MaxMishaps /\ throttles \in 0 .. MaxThrottles /\ excuses \in Nat
           /\ \A u \in Face!Tasks \ {t} : at[u].pc = "free"
           /\ mishaps = 0 => /\ card.known
                             /\ card.id # 0 => screen[card.id] \in {card.shown, "gone"}
                             /\ ~card.dirty => card.id # 0 /\ card.shown = card.kind
<1>1. Face!TypeOK /\ Locked /\ Shown
  BY DEF Drawable
<1>2. Face!Present
  BY <1>1 DEF Locked
<1>3. \A u \in Face!Tasks \ {t} : at[u].pc = "free"
  BY <1>1, TheOtherWaits DEF Writing
<1> QED BY <1>1, <1>2, <1>3, CardTypes, CardIsThere DEF Shown

LEMMA TickDraws == ASSUME Drawable, Face!Tick PROVE Drawable'
<1>1. Face!TypeOK /\ Shown
  BY DEF Drawable
<1>2. /\ Face!Present /\ \A u \in Face!Tasks : at[u].pc = "free"
      /\ card' = [card EXCEPT !.dirty = @ \/ card.kind \in Face!Live] /\ Face!To("ticker", "flush")
      /\ UNCHANGED <<turn, turns, row, batch, adopted, screen, mishaps, throttles, excuses>>
  BY DEF Face!Tick, Face!LockFree, Face!At
<1>3. PICK b \in BOOLEAN : b = (card.dirty \/ card.kind \in Face!Live)
  OBVIOUS
<1>4. card \in CardFields
  BY <1>1, <1>2, CardIsThere
<1>5. card' = [card EXCEPT !.dirty = b]
  BY <1>2, <1>3
<1>6. /\ card' \in CardFields /\ card'.id = card.id /\ card'.kind = card.kind /\ card'.dirty = b
      /\ card'.known = card.known /\ card'.shown = card.shown
  BY <1>4, <1>5 DEF CardFields
<1>7. /\ at' \in [Face!Tasks -> [pc : Steps, id : {0} \cup Face!Messages]]
      /\ at'["ticker"].pc = "flush" /\ at'["poller"] = at["poller"]
  BY <1>1, <1>2, Goes DEF Face!Tasks, Steps
<1>8. ~card'.dirty => ~card.dirty
  BY <1>3, <1>6
<1> QED BY <1>1, <1>2, <1>6, <1>7, <1>8, TaskDraws, CardTypes DEF Face!Tasks, Writing, Shown

LEMMA SkipDraws == ASSUME Drawable, NEW t \in Face!Tasks, Face!Skip(t) PROVE Drawable'
<1>1. Face!TypeOK /\ at[t].pc \in Writing
  BY DEF Drawable, Face!Skip, Face!At, Writing
<1>2. /\ UNCHANGED <<turn, turns, row, batch, adopted, screen, mishaps, throttles, excuses>>
      /\ Face!To(t, "retire")
  BY DEF Face!Skip
<1>3. /\ at' \in [Face!Tasks -> [pc : Steps, id : {0} \cup Face!Messages]]
      /\ at'[t].pc = "retire" /\ \A u \in Face!Tasks \ {t} : at'[u] = at[u]
  BY <1>1, <1>2, Goes DEF Steps
<1>4. card \in CardFields
  BY <1>1, CardInHand
<1>5. CASE card' = card
  BY <1>1, <1>2, <1>3, <1>4, <1>5, CardInHand, TaskDraws DEF Writing
<1>6. CASE Face!Unchanged /\ card' = [card EXCEPT !.dirty = FALSE]
  <2>1. /\ card' \in CardFields /\ card'.id = card.id /\ card'.kind = card.kind /\ card'.dirty = FALSE
        /\ card'.known = card.known /\ card'.shown = card.shown
    BY <1>4, <1>6, Redrawn
  <2>2. card.id # 0 /\ card.shown = card.kind
    BY <1>6 DEF Face!Unchanged
  <2> QED BY <1>1, <1>2, <1>3, <2>1, <2>2, CardInHand, TaskDraws DEF Writing
<1> QED BY <1>5, <1>6 DEF Face!Skip

LEMMA PostDraws == ASSUME Drawable, NEW t \in Face!Tasks, Face!Post(t) PROVE Drawable'
<1>1. Face!TypeOK /\ at[t].pc \in Writing /\ card.id = 0
  BY DEF Drawable, Face!Post, Face!Calling, Face!At, Writing
<1>2. /\ UNCHANGED <<turn, turns, row, batch, card, adopted, mishaps, throttles, excuses>>
  BY DEF Face!Post
<1>3. PICK m \in Face!Unposted : /\ screen' = [screen EXCEPT ![m] = card.kind]
                                 /\ at' = [at EXCEPT ![t] = [pc |-> "fetch", id |-> m]]
  BY DEF Face!Post
<1>4. m \in Face!Messages /\ card \in CardFields /\ card.kind \in Face!Kinds
  BY <1>1, CardInHand DEF Face!Unposted, CardFields
<1>5. /\ at' \in [Face!Tasks -> [pc : Steps, id : {0} \cup Face!Messages]]
      /\ at'[t].pc = "fetch" /\ at'[t].id = m /\ \A u \in Face!Tasks \ {t} : at'[u] = at[u]
  BY <1>1, <1>3, <1>4, CardTypes DEF Steps
<1>6. screen' \in [Face!Messages -> Face!Kinds \cup {"none", "gone"}] /\ screen'[m] = card.kind
  BY <1>1, <1>3, <1>4, CardTypes
<1> QED BY <1>1, <1>2, <1>4, <1>5, <1>6, CardInHand, TaskDraws DEF Writing

LEMMA PostedDraws == ASSUME Drawable, NEW t \in Face!Tasks, Face!Posted(t) PROVE Drawable'
<1>1. Face!TypeOK /\ at[t].pc \in Writing /\ at[t].id \in Face!Messages
      /\ screen[at[t].id] \in {card.kind, "gone"}
  BY DEF Drawable, Face!Posted, Locked, Face!At, Writing
<1>2. /\ UNCHANGED <<turn, turns, row, batch, adopted, screen, mishaps, throttles, excuses>>
      /\ card' = Face!Drawn(at[t].id) /\ Face!To(t, "persist")
  BY DEF Face!Posted
<1>3. card \in CardFields
  BY <1>1, CardInHand
<1>4. /\ card' \in CardFields /\ card'.id = at[t].id /\ card'.kind = card.kind
      /\ card'.known = card.known
      /\ card'.shown = card.kind
  BY <1>1, <1>2, <1>3 DEF CardFields, Face!Drawn
<1>5. /\ at' \in [Face!Tasks -> [pc : Steps, id : {0} \cup Face!Messages]]
      /\ at'[t].pc = "persist" /\ at'[t].id = at[t].id /\ \A u \in Face!Tasks \ {t} : at'[u] = at[u]
  BY <1>1, <1>2, Goes DEF Steps
<1>6. card'.id # 0
  BY <1>1, <1>4, NoMessageIsZero
<1> QED BY <1>1, <1>2, <1>4, <1>5, <1>6, CardInHand, TaskDraws DEF Writing

LEMMA PersistDraws == ASSUME Drawable, NEW t \in Face!Tasks, Face!Persist(t) PROVE Drawable'
<1>1. Face!TypeOK /\ at[t].pc \in Writing /\ at[t].id \in Face!Messages
  BY DEF Drawable, Face!Persist, Locked, Face!At, Writing
<1>2. /\ UNCHANGED <<turn, turns, batch, card, adopted, screen, mishaps, throttles, excuses>>
      /\ row' = at[t].id /\ Face!To(t, "retire")
  BY DEF Face!Persist
<1>3. /\ at' \in [Face!Tasks -> [pc : Steps, id : {0} \cup Face!Messages]]
      /\ at'[t].pc = "retire" /\ \A u \in Face!Tasks \ {t} : at'[u] = at[u]
  BY <1>1, <1>2, Goes DEF Steps
<1> QED BY <1>1, <1>2, <1>3, CardInHand, TaskDraws DEF Writing

LEMMA EditDraws == ASSUME Drawable, NEW t \in Face!Tasks, Face!Edit(t) PROVE Drawable'
<1>1. Face!TypeOK /\ at[t].pc \in Writing /\ card.id # 0 /\ card.dirty
  BY DEF Drawable, Face!Edit, Face!Calling, Face!Due, Face!At, Writing
<1>2. /\ UNCHANGED <<turn, turns, row, batch, adopted, mishaps, throttles, excuses>>
      /\ Face!To(t, "retire")
  BY DEF Face!Edit
<1>3. card \in CardFields /\ card.id \in Face!Messages /\ card.kind \in Face!Kinds
  BY <1>1, CardInHand DEF CardFields
<1>4. /\ at' \in [Face!Tasks -> [pc : Steps, id : {0} \cup Face!Messages]]
      /\ at'[t].pc = "retire" /\ \A u \in Face!Tasks \ {t} : at'[u] = at[u]
  BY <1>1, <1>2, Goes DEF Steps
<1>5. CASE card' = [card EXCEPT !.id = 0] /\ screen' = screen
  <2>1. /\ card' \in CardFields /\ card'.id = 0 /\ card'.kind = card.kind /\ card'.dirty = card.dirty
        /\ card'.known = card.known /\ card'.shown = card.shown
    BY <1>3, <1>5 DEF CardFields
  <2> QED BY <1>1, <1>2, <1>4, <1>5, <2>1, CardInHand, TaskDraws DEF Writing
<1>6. CASE card' = Face!Drawn(card.id) /\ screen' = [screen EXCEPT ![card.id] = card.kind]
  <2>1. /\ card' \in CardFields /\ card'.id = card.id /\ card'.kind = card.kind
        /\ card'.known = card.known
        /\ card'.shown = card.kind
    BY <1>3, <1>6 DEF CardFields, Face!Drawn
  <2>2. screen' \in [Face!Messages -> Face!Kinds \cup {"none", "gone"}] /\ screen'[card.id] = card.kind
    BY <1>1, <1>3, <1>6, CardTypes
  <2> QED BY <1>1, <1>2, <1>4, <2>1, <2>2, CardInHand, TaskDraws DEF Writing
<1> QED BY <1>5, <1>6 DEF Face!Edit

LEMMA ThrottledDraws == ASSUME Drawable, NEW t \in Face!Tasks, Face!Throttled(t) PROVE Drawable'
<1>1. Face!TypeOK /\ at[t].pc \in Writing
  BY DEF Drawable, Face!Throttled, Face!Calling, Face!At, Writing
<1>2. /\ UNCHANGED <<turn, turns, row, batch, adopted, screen, mishaps, excuses>>
      /\ Face!To(t, "retire")
      /\ card' = [card EXCEPT !.held = TRUE] /\ throttles' \in 0 .. MaxThrottles
  BY <1>1, CardTypes, CardGiven DEF Face!Throttled
<1>3. card \in CardFields
  BY <1>1, CardInHand
<1>4. /\ card' \in CardFields /\ card'.id = card.id /\ card'.kind = card.kind
      /\ card'.dirty = card.dirty
      /\ card'.known = card.known /\ card'.shown = card.shown
  BY <1>2, <1>3, Redrawn
<1>5. /\ at' \in [Face!Tasks -> [pc : Steps, id : {0} \cup Face!Messages]]
      /\ at'[t].pc = "retire" /\ \A u \in Face!Tasks \ {t} : at'[u] = at[u]
  BY <1>1, <1>2, Goes DEF Steps
<1> QED BY <1>1, <1>2, <1>4, <1>5, CardInHand, TaskDraws, ZenonT(60) DEF Writing

LEMMA FailedDraws == ASSUME Drawable, NEW t \in Face!Tasks, Face!Failed(t) PROVE Drawable'
<1>1. Face!TypeOK /\ at[t].pc \in Writing
  BY DEF Drawable, Face!Failed, Face!Calling, Face!At, Writing
<1>2. /\ UNCHANGED <<turn, turns, row, batch, adopted, throttles>> /\ Face!To(t, "retire")
      /\ card' = [card EXCEPT !.dirty = FALSE]
      /\ mishaps' \in 0 .. MaxMishaps /\ mishaps' # 0 /\ excuses' \in Nat
  BY <1>1, CardTypes, CardGiven DEF Face!Failed, Face!Excuse
<1>3. card \in CardFields /\ card.kind \in Face!Kinds
  BY <1>1, CardInHand DEF CardFields
<1>4. /\ card' \in CardFields /\ card'.kind = card.kind /\ card'.known = card.known
  BY <1>2, <1>3, Redrawn
<1>5. /\ at' \in [Face!Tasks -> [pc : Steps, id : {0} \cup Face!Messages]]
      /\ at'[t].pc = "retire" /\ \A u \in Face!Tasks \ {t} : at'[u] = at[u]
  BY <1>1, <1>2, Goes DEF Steps
<1>6. screen' \in [Face!Messages -> Face!Kinds \cup {"none", "gone"}]
  BY <1>1, <1>3, CardTypes DEF Face!Failed, Face!Unposted
<1> QED BY <1>1, <1>2, <1>4, <1>5, <1>6, CardInHand, TaskDraws DEF Writing


LEMMA CalmDraws == ASSUME Drawable, Face!Calm PROVE Drawable'
<1>1. Face!TypeOK /\ Locked /\ Spoken /\ Faced /\ Shown
  BY DEF Drawable
<1>2. /\ UNCHANGED <<turn, turns, row, batch, adopted, at, screen, mishaps, throttles, excuses>>
      /\ Face!Present /\ card' = [card EXCEPT !.held = FALSE]
  BY DEF Face!Calm
<1>3. card \in CardFields
  BY <1>1, <1>2, CardIsThere
<1>4. /\ card' \in CardFields /\ card'.id = card.id /\ card'.kind = card.kind
      /\ card'.dirty = card.dirty
      /\ card'.known = card.known /\ card'.shown = card.shown
  BY <1>2, <1>3 DEF CardFields
<1>5. card' # Face!Absent
  BY <1>4, ACardIsSomething
<1>6. Locked'
  BY <1>1, <1>2, <1>4, <1>5 DEF Locked, Face!At, Face!Present, Face!Supersedes
<1>7. Faced'
  BY <1>1, <1>2, <1>4 DEF Faced, Heard, Face!Present
<1>8. Shown'
  BY <1>1, <1>2, <1>4, <1>5 DEF Shown, Face!Present
<1> QED BY <1>1, <1>2, <1>4, <1>6, <1>7, <1>8, WriterDraws, CardTypes

LEMMA RetireDraws == ASSUME Drawable, NEW t \in Face!Tasks, Face!Retire(t) PROVE Drawable'
<1>1. Face!TypeOK /\ Locked /\ Spoken /\ Faced /\ Shown /\ at[t].pc \in Writing
  BY DEF Drawable, Face!Retire, Face!At, Writing
<1>2. /\ UNCHANGED <<turn, turns, batch, adopted, screen, mishaps, throttles, excuses>>
      /\ \/ UNCHANGED <<card, row>>
         \/ card' = Face!Absent /\ row' = 0
      /\ at' = [at EXCEPT ![t] = IF t = "poller" THEN [Face!Free EXCEPT !.pc = "sync"] ELSE Face!Free]
  BY DEF Face!Retire
<1>3. \A u \in Face!Tasks \ {t} : at[u].pc = "free"
  BY <1>1, TheOtherWaits DEF Writing
<1>4. /\ [Face!Free EXCEPT !.pc = "sync"] = [pc |-> "sync", id |-> 0]
      /\ Face!Free = [pc |-> "free", id |-> 0]
  BY DEF Face!Free
<1>5. /\ at' \in [Face!Tasks -> [pc : Steps, id : {0} \cup Face!Messages]]
      /\ at'[t].pc = IF t = "poller" THEN "sync" ELSE "free"
      /\ \A u \in Face!Tasks \ {t} : at'[u] = at[u]
  BY <1>1, <1>2, <1>4, CardTypes DEF Steps
<1>6. Locked'
  BY <1>1, <1>2, <1>3, <1>5 DEF Locked, Face!At, Writing, Face!Tasks
<1>7. Faced'
  BY <1>1, <1>2, <1>5 DEF Faced, Heard, Face!Present, Writing, Face!Tasks
<1>8. Shown'
  BY <1>1, <1>2 DEF Shown, Face!Present
<1>9. row' \in {0} \cup Face!Messages /\ card' \in {Face!Absent} \cup CardFields
  BY <1>1, <1>2, CardTypes
<1> QED BY <1>1, <1>2, <1>5, <1>6, <1>7, <1>8, <1>9, WriterDraws, CardTypes

LEMMA SyncDraws == ASSUME Drawable, Face!Sync PROVE Drawable'
<1>1. Face!TypeOK /\ Locked /\ Spoken /\ Faced /\ Shown
  BY DEF Drawable
<1>2. /\ UNCHANGED <<turns, row, card, adopted, screen, mishaps, throttles, excuses>>
      /\ turn' = [turn EXCEPT !.card = row] /\ batch' = Face!Absent
      /\ at' = [at EXCEPT !["poller"] = Face!Free]
      /\ at["poller"].pc = "sync"
  BY DEF Face!Sync, Face!At
<1>3. turn' \in [phase : Face!Kinds, card : {0} \cup Face!Messages] /\ turn'.phase = turn.phase
      /\ turn'.card = row
  BY <1>1, <1>2, CardTypes
<1>4. /\ at' \in [Face!Tasks -> [pc : Steps, id : {0} \cup Face!Messages]]
      /\ at'["poller"].pc = "free" /\ at'["ticker"] = at["ticker"]
  BY <1>1, <1>2, CardTypes DEF Steps, Face!Free, Face!Tasks
<1>5. Face!TypeOK'
  BY <1>1, <1>2, <1>3, <1>4 DEF Face!TypeOK, Steps
<1>6. Locked'
  BY <1>1, <1>2, <1>4 DEF Locked, Face!At, Writing, Face!Tasks, Face!Present
<1>7. Spoken'
  BY <1>2 DEF Spoken
<1>8. Faced'
  BY <1>1, <1>2, <1>3 DEF Faced, Heard, Face!Present
<1>9. Shown'
  BY <1>1, <1>2, <1>3 DEF Shown, Face!Present
<1> QED BY <1>5, <1>6, <1>7, <1>8, <1>9 DEF Drawable

LEMMA LossDraws == ASSUME Drawable, Face!Restart \/ Face!Deleted PROVE Drawable'
<1>1. Face!TypeOK /\ Locked /\ Spoken /\ Faced
  BY DEF Drawable
<1>2. /\ UNCHANGED <<turns, row, throttles>>
      /\ mishaps' \in 0 .. MaxMishaps /\ mishaps' # 0 /\ excuses' \in Nat
  BY <1>1, CardTypes, CardGiven DEF Face!Restart, Face!Deleted, Face!Excuse
<1>3. Shown'
  BY <1>2 DEF Shown
<1>4. CASE Face!Restart
  <2>1. /\ card' = Face!Absent /\ batch' = Face!Absent /\ adopted' = FALSE /\ screen' = screen
        /\ at' = [t \in Face!Tasks |-> Face!Free] /\ turn' = [turn EXCEPT !.card = row]
    BY <1>4 DEF Face!Restart
  <2>2. Face!TypeOK'
    BY <1>1, <1>2, <2>1, CardTypes DEF Face!TypeOK, Face!Free
  <2>3. Locked' /\ Spoken' /\ Faced'
    BY <2>1 DEF Locked, Spoken, Faced, Face!Present, Face!At, Face!Free, Writing, Face!Tasks
  <2> QED BY <1>3, <2>2, <2>3 DEF Drawable
<1>5. CASE Face!Deleted
  <2>1. UNCHANGED <<turn, batch, card, adopted, at>>
    BY <1>5 DEF Face!Deleted
  <2>2. /\ screen' \in [Face!Messages -> Face!Kinds \cup {"none", "gone"}]
        /\ \A m \in Face!Messages : screen'[m] \in {screen[m], "gone"}
    BY <1>1, <1>5, CardTypes DEF Face!Deleted
  <2>3. Face!TypeOK'
    BY <1>1, <1>2, <2>1, <2>2 DEF Face!TypeOK
  <2>4. Locked' /\ Spoken' /\ Faced'
    BY <1>1, <2>1, <2>2 DEF Locked, Spoken, Faced, Heard, Face!Present, Face!At, Face!Supersedes
  <2> QED BY <1>3, <2>3, <2>4 DEF Drawable
<1> QED BY <1>4, <1>5

LEMMA DrawableInit == Face!Init => Drawable
<1> SUFFICES ASSUME Face!Init PROVE Drawable
  OBVIOUS
<1>1. Face!TypeOK
  <2>1. [phase |-> "done", card |-> 0] \in [phase : Face!Kinds, card : {0} \cup Face!Messages]
    BY DEF Face!Kinds, Face!Terminal
  <2>2. Face!Free \in [pc : Steps, id : {0} \cup Face!Messages]
    BY DEF Face!Free, Steps
  <2>3. 0 \in 0 .. MaxTurns /\ 0 \in 0 .. MaxMishaps /\ 0 \in 0 .. MaxThrottles
    BY CardGiven
  <2> QED BY <2>1, <2>2, <2>3, CardTypes DEF Face!Init
<1>2. Locked /\ Spoken /\ Faced /\ Shown
  BY DEF Face!Init, Locked, Spoken, Faced, Shown, Face!Present, Face!At, Face!Free, Writing, Face!Tasks
<1> QED BY <1>1, <1>2 DEF Drawable

LEMMA DrawableStep == Drawable /\ [Face!Next]_(Face!vars) => Drawable'
<1> SUFFICES ASSUME Drawable, [Face!Next]_(Face!vars) PROVE Drawable'
  OBVIOUS
<1>1. CASE Face!Machine
  BY <1>1, StepsDraw, PollDraws DEF Face!Machine
<1>2. ASSUME NEW t \in Face!Tasks, Face!Flush(t) PROVE Drawable'
  BY <1>2, SkipDraws, PostDraws, PostedDraws, PersistDraws, EditDraws, RetireDraws DEF Face!Flush
<1>3. CASE Face!Handle \/ Face!Ticker
  BY <1>2, <1>3, EnterDraws, SupersedeDraws, ApplyDraws, SyncDraws, TickDraws DEF Face!Handle,
         Face!Ticker, Face!Tasks
<1>4. CASE Face!Calm \/ Face!Trouble
  BY <1>4, CalmDraws, SupersedeDraws, ThrottledDraws, FailedDraws, LossDraws DEF Face!Trouble
<1>5. CASE UNCHANGED Face!vars
  BY <1>5 DEF Face!vars, Drawable, Face!TypeOK, Locked, Spoken, Faced, Heard, Shown, Face!Present,
         Face!At, Face!Supersedes
<1> QED BY <1>1, <1>3, <1>4, <1>5 DEF Face!Next

\* What is drawn is the machine's word.
LEMMA FacesAreTheMachines ==
    ASSUME Drawable, [Face!Next]_(Face!vars), batch = Face!Absent \/ batch.op = "activity",
           NEW m \in Face!Messages, screen'[m] \in Face!Kinds \ {screen[m]}
    PROVE  screen'[m] = turn.phase
<1>1. Face!TypeOK /\ Locked /\ Faced
  BY DEF Drawable
<1>2. "gone" \notin Face!Kinds
  BY DEF Face!Kinds, Face!Terminal
<1>3. screen' # screen /\ \A n : screen' # [screen EXCEPT ![n] = "gone"]
  BY <1>1, <1>2, CardTypes
<1>4. PICK t \in Face!Tasks : Face!Post(t) \/ Face!Edit(t) \/ Face!Failed(t)
  BY <1>3 DEF Face!Next, Face!vars, Face!Machine, Face!Wake, Face!Prompt, Face!Witness, Face!Conclude,
         Face!Die, Face!Step, Face!Poll, Face!Handle, Face!Enter, Face!Supersede, Face!Apply,
         Face!Sync, Face!Ticker, Face!Tick, Face!Flush, Face!Skip, Face!Posted, Face!Persist,
         Face!Retire, Face!Tasks, Face!Calm, Face!Trouble, Face!SupersedeRefused,
         Face!Throttled, Face!Restart, Face!Deleted
<1>5. Face!Calling(t) /\ Face!Present
  BY <1>1, <1>4 DEF Face!Post, Face!Edit, Face!Failed, Face!Calling, Locked, Face!At, Writing
<1>6. card.kind = turn.phase
  BY <1>1, <1>5 DEF Face!Calling, Face!Due, Faced, Heard
<1>7. card.id \in {0} \cup Face!Messages
  BY <1>1, <1>5, CardIsThere DEF CardFields
<1>8. screen'[m] = card.kind
  BY <1>1, <1>3, <1>4, <1>7, CardTypes DEF Face!Post, Face!Edit, Face!Failed, Face!Unposted
<1> QED BY <1>6, <1>8

\* A finished card is let go when it has been shown as it is.
LEMMA FinishedMeansShown ==
    ASSUME Drawable, [Face!Next]_(Face!vars), Face!Present, card' = Face!Absent, mishaps' = 0,
           card.kind \in Face!Terminal
    PROVE  card.id \notin Face!Stops
<1>1. Face!TypeOK /\ Shown /\ Locked
  BY DEF Drawable
<1>2. card' # card
  BY DEF Face!Present
<1>3. card \in CardFields /\ card.kind \in Face!Kinds
  BY <1>1, CardIsThere DEF CardFields
<1>4. Drawable'
  BY DrawableStep
<1>5. \A t \in Face!Tasks : at'[t].pc \notin Writing
  BY <1>4 DEF Drawable, Locked, Face!Present
<1>6. ASSUME NEW t \in Face!Tasks, NEW pc \in Writing PROVE ~Face!To(t, pc)
  BY <1>1, <1>5, Goes DEF Steps, Writing
<1>7. ~Face!Calm
  <2>1. [card EXCEPT !.held = FALSE] \in CardFields
    BY <1>3 DEF CardFields
  <2> QED BY <2>1, ACardIsSomething DEF Face!Calm
<1>8. ~Face!Apply
  <2> SUFFICES ASSUME Face!Apply PROVE FALSE
    OBVIOUS
  <2>1. batch # Face!Absent /\ card' = Face!Marked(Face!Applied(card))
    BY <1>1 DEF Face!Apply, Locked, Face!At
  <2> QED BY <1>1, <2>1, AppliedIs, ACardIsSomething DEF Face!Present
<1>9. ~Face!Enter
  BY DEF Face!Enter, Face!Adopt, Face!Present
<1>10. ~Face!Restart
  BY <1>1, CardTypes, CardGiven DEF Face!Restart
<1>11. PICK t \in Face!Tasks : Face!Retire(t)
  <2>1. \A t \in Face!Tasks : ~Face!Skip(t) /\ ~Face!Posted(t) /\ ~Face!Edit(t) /\ ~Face!Throttled(t)
                              /\ ~Face!Failed(t)
    BY <1>6 DEF Face!Skip, Face!Posted, Face!Edit, Face!Throttled, Face!Failed, Writing
  <2>2. ~Face!Tick
    BY <1>6 DEF Face!Tick, Face!Tasks, Writing
  <2> QED BY <1>2, <1>7, <1>8, <1>9, <1>10, <2>1, <2>2
          DEF Face!Next, Face!vars, Face!Machine, Face!Wake, Face!Prompt, Face!Witness, Face!Conclude,
              Face!Die, Face!Step, Face!Poll, Face!Handle, Face!Supersede, Face!Sync, Face!Ticker,
              Face!Flush, Face!Post, Face!Persist, Face!Tasks, Face!Trouble, Face!SupersedeRefused,
              Face!Deleted
<1>12. mishaps = 0 /\ ~card.dirty
  BY <1>2, <1>11 DEF Face!Retire, Face!Retires
<1>13. card.shown = card.kind /\ card.id # 0 /\ screen[card.id] \in {card.kind, "gone"}
  BY <1>1, <1>12 DEF Shown
<1> QED BY <1>13 DEF Face!Stops, Face!Kinds, Face!Terminal

LEMMA CardsAreDrawable == Face!Spec => []Drawable
BY DrawableInit, DrawableStep, PTL DEF Face!Spec

\* What a message is made to say is what the machine last said, and a finished card
\* leaves the memory only when its message carries no Stop: one task at a time has the
\* topic's lock, what is drawn is what the card says, and a clean card was drawn as it
\* is (_apply, _post, _edit, _maybe_retire).
THEOREM CardsSayWhatTheMachineSaid == SideBySide => TheCardIsTheTurns
<1> DEFINE TheMachines == (batch = Face!Absent \/ batch.op = "activity")
             => \A m \in Face!Messages : screen'[m] \in Face!Kinds \ {screen[m]} => screen'[m] = turn.phase
           Landed == (Face!Present /\ card' = Face!Absent /\ mishaps' = 0 /\ card.kind \in Face!Terminal)
             => card.id \notin Face!Stops
<1>1. Drawable /\ [Face!Next]_(Face!vars) => [TheMachines]_(Face!vars) /\ [Landed]_(Face!vars)
  BY FacesAreTheMachines, FinishedMeansShown
<1>2. [][TheMachines]_(Face!vars) => Face!TheFaceIsTheMachines
  BY PTL DEF Face!TheFaceIsTheMachines
<1>3. [][Landed]_(Face!vars) => Face!NoStopIsLetGo
  BY PTL DEF Face!NoStopIsLetGo
<1> HIDE DEF TheMachines, Landed
<1>4. Face!Spec => [][TheMachines]_(Face!vars) /\ [][Landed]_(Face!vars)
  BY <1>1, CardsAreDrawable, PTL DEF Face!Spec
<1> QED BY <1>2, <1>3, <1>4, CardSteps, PTL DEF TheCardIsTheTurns

-----------------------------------------------------------------------------
(* The balance of Stops.  A topic's own message is the card's, the one a    *)
(* post has just put up, or, before the row has been looked up, the row's.  *)
(* Any other message that carries Stop is an orphan.                        *)
Own ==
    IF ~adopted THEN row
    ELSE IF card = Face!Absent THEN 0
    ELSE IF at["poller"].pc = "fetch" THEN at["poller"].id
    ELSE IF at["ticker"].pc = "fetch" THEN at["ticker"].id ELSE card.id

Orphans == Face!Stops \ {Own}

\* Where the batch is, and what is known of the message once nobody holds it.
Before == at["poller"].pc \in {"free", "supersede", "apply"}
Posting == batch.op = "post" /\ Before
Renewing == Before /\ (batch.op = "post" \/ (batch.op = "edit" /\ turn.phase = "done"))
Ending == batch # Face!Absent /\ turn.phase \in Face!Terminal /\ Before
Drawing == at["poller"].pc = "flush" /\ ~card.held
Sending == at["poller"].pc \in {"fetch", "persist"} \/ at["ticker"].pc \in {"fetch", "persist"}
Last == IF batch = Face!Absent THEN turn.card ELSE row

(* What may yet orphan a message, and was paid for.  A 429 a later edit may *)
(* be held back by.                                                         *)
HeldBack == Face!Present /\ card.held /\ (card.id # 0 \/ (Renewing /\ row # 0))

\* A card marked for its retirement that has not shown its last face, or will not.
Unretired ==
    /\ Face!Present /\ card.retire
    /\ \/ card.kind \notin Face!Terminal
       \/ ~card.dirty /\ Own \in Face!Stops
       \/ /\ card.dirty /\ ~(Drawing /\ batch.op \in {"post", "edit"}) /\ ~Sending
          /\ turn.phase # "dead" /\ (Own # 0 \/ Last # 0)

\* A message somebody took away, which the card has yet to find out.
TakenAway ==
    /\ Own # 0 /\ screen[Own] = "gone" /\ ~Posting
    /\ \/ turn.phase = "queued" /\ Face!Present /\ card.known
       \/ Sending
       \/ turn.phase = "done" /\ Face!Present /\ Last # 0

\* A context, or a row, that names a message the card has left.
Outdated ==
    /\ turn.phase = "queued" /\ Face!Present /\ (card.dirty \/ Own # 0)
    /\ Last \notin {0, Own} /\ ~Posting
    /\ ~(Drawing /\ (batch.op = "post" \/ batch.op = "edit" \/ card.id = 0))
    /\ at["poller"].pc \notin {"fetch", "persist"}

\* A message the row has lost.
Unrecorded ==
    /\ Face!Present /\ ~card.retire /\ Own \notin {0, row} /\ ~Sending
    /\ ~(Before /\ (batch.op = "post" \/ Ending))

AtRisk == HeldBack \/ Unretired \/ TakenAway \/ Outdated \/ Unrecorded

\* A message whose removal was refused, about to be left behind.
Refused == at["poller"].pc = "apply" /\ batch.op = "post" /\ Own \in Face!Stops /\ card.kind \notin Face!Terminal

Owed == (IF AtRisk THEN 1 ELSE 0) + (IF Refused THEN 1 ELSE 0)
Balanced == Cardinality(Orphans) + Owed <= excuses + throttles

\* Rows: who writes the message's id, and when.
Rows ==
    /\ ~adopted => row = turn.card /\ card = Face!Absent
    /\ Renewing /\ row # 0 =>
          /\ Face!Present /\ (Own # 0 => screen[Own] \in {card.kind, "gone"})
          /\ row = Own \/ screen[row] = "gone"
    /\ batch.op = "edit" => turn.phase # "queued"
    /\ batch.op = "activity" => turn.phase \notin Face!Terminal
    /\ batch.op = "edit" /\ Before /\ turn.phase # "done" /\ Face!Present => row # 0

\* Marks: a finished card is to be retired, and a marked one is redrawn until it is.
Marks ==
    Face!Present =>
        /\ card.kind \in Face!Terminal => card.retire
        /\ card.held => card.dirty
        /\ card.retire /\ ~card.dirty =>
              at["poller"].pc \in {"persist", "retire"} \/ at["ticker"].pc \in {"persist", "retire"}
        /\ card.retire => turn.phase \in {"done", "dead", "waking"} \/ (Posting /\ turn.phase = "queued")
        /\ Ending => ~card.retire

\* Hands: what a task holds while it sends.
Hands ==
    /\ \A t \in Face!Tasks :
          /\ Face!At(t, "fetch") => card.id = 0 /\ ~card.held /\ card.dirty /\ card.known
          /\ Face!At(t, "persist") => ~card.dirty /\ ~card.held /\ card.known /\ card.shown = card.kind
    /\ Face!Present /\ card.id # 0 /\ card.shown # "none" => screen[card.id] \in {card.shown, "gone"}

\* A card found in the row and not yet spoken for.
Found ==
    Face!Present /\ ~card.known =>
        /\ IF batch.op \in {"none", "activity"} THEN row = card.id /\ turn.card = card.id ELSE row \in {0, card.id}
        /\ batch.op \in {"none", "activity"} \/ Before

Accounted == Drawable /\ Rows /\ Marks /\ Hands /\ Found /\ Balanced

-----------------------------------------------------------------------------
LEMMA OwnTyped == Face!TypeOK => Own \in {0} \cup Face!Messages
<1> SUFFICES ASSUME Face!TypeOK PROVE Own \in {0} \cup Face!Messages
  OBVIOUS
<1>1. /\ at["poller"].id \in {0} \cup Face!Messages /\ at["ticker"].id \in {0} \cup Face!Messages
      /\ row \in {0} \cup Face!Messages /\ (card # Face!Absent => card.id \in {0} \cup Face!Messages)
  BY CardTypes DEF Face!Tasks, CardFields
<1> QED BY <1>1 DEF Own

LEMMA OrphansCount == IsFiniteSet(Orphans) /\ Cardinality(Orphans) \in Nat
<1>1. IsFiniteSet(Face!Messages)
  BY CardGiven, FS_Interval DEF Face!Messages
<1>2. Orphans \subseteq Face!Messages
  BY DEF Orphans, Face!Stops
<1> QED BY <1>1, <1>2, FS_Subset, FS_CardinalityType

LEMMA OrphansCountThen == IsFiniteSet(Orphans') /\ Cardinality(Orphans') \in Nat
<1>1. IsFiniteSet(Face!Messages)
  BY CardGiven, FS_Interval DEF Face!Messages
<1>2. Orphans' \subseteq Face!Messages
  BY DEF Orphans, Face!Stops
<1> QED BY <1>1, <1>2, FS_Subset, FS_CardinalityType

LEMMA NoMoreOrphans ==
    ASSUME Orphans' \subseteq Orphans PROVE Cardinality(Orphans') <= Cardinality(Orphans)
BY OrphansCount, FS_Subset

LEMMA OneMoreOrphan ==
    ASSUME NEW m, Orphans' \subseteq Orphans \cup {m} PROVE Cardinality(Orphans') <= Cardinality(Orphans) + 1
BY OneMore, OrphansCount

\* Nothing is orphaned, and nothing more is at risk.
LEMMA BalanceStands ==
    ASSUME Face!TypeOK, Balanced, Orphans' \subseteq Orphans, AtRisk' => AtRisk, Refused' => Refused,
           UNCHANGED <<excuses, throttles>>
    PROVE  Balanced'
<1>1. Cardinality(Orphans') <= Cardinality(Orphans) /\ Cardinality(Orphans') \in Nat
      /\ Cardinality(Orphans) \in Nat
  BY NoMoreOrphans, OrphansCount, OrphansCountThen
<1>2. Owed' <= Owed /\ Owed' \in 0 .. 2 /\ Owed \in 0 .. 2
  BY DEF Owed
<1>3. excuses \in Nat /\ throttles \in Nat
  BY CardTypes
<1>4. Cardinality(Orphans) + Owed <= excuses + throttles /\ excuses' = excuses /\ throttles' = throttles
  BY DEF Balanced
<1>5. Cardinality(Orphans') + Owed' <= excuses' + throttles'
  BY <1>1, <1>2, <1>3, <1>4
<1> QED BY <1>5 DEF Balanced

\* A mishap pays for one message, or for one risk.
LEMMA BalanceIsPaid ==
    ASSUME Face!TypeOK, Balanced, excuses' + throttles' = excuses + throttles + 1,
           NEW m, Orphans' \subseteq Orphans \cup {m},
           ~(Orphans' \subseteq Orphans) => (AtRisk' => AtRisk) /\ (Refused' => Refused),
           (AtRisk' => AtRisk) \/ (Refused' => Refused)
    PROVE  Balanced'
<1>1. Cardinality(Orphans') <= Cardinality(Orphans) + 1 /\ Cardinality(Orphans') \in Nat
      /\ Cardinality(Orphans) \in Nat
  BY OneMoreOrphan, OrphansCount, OrphansCountThen
<1>2. Owed' <= Owed + 1 /\ Owed' \in 0 .. 2 /\ Owed \in 0 .. 2
  BY DEF Owed
<1>3. excuses \in Nat /\ throttles \in Nat
  BY CardTypes
<1>4. CASE Orphans' \subseteq Orphans
  <2>1. Cardinality(Orphans') <= Cardinality(Orphans)
    BY <1>4, NoMoreOrphans
  <2> QED BY <1>1, <1>2, <1>3, <2>1 DEF Balanced
<1>5. CASE ~(Orphans' \subseteq Orphans)
  <2>1. Owed' <= Owed
    BY <1>5 DEF Owed
  <2> QED BY <1>1, <1>2, <1>3, <2>1 DEF Balanced
<1> QED BY <1>4, <1>5

LEMMA Spends ==
    ASSUME NEW a \in Nat, NEW b \in Nat, NEW c \in Nat, NEW d \in Nat, NEW s \in Nat,
           a + c <= s, b <= a + 1, d + 1 <= c
    PROVE  b + d <= s
OBVIOUS

\* What was at risk is orphaned.
LEMMA BalanceIsSpent ==
    ASSUME Face!TypeOK, Balanced, UNCHANGED <<excuses, throttles>>,
           NEW m, Orphans' \subseteq Orphans \cup {m},
           (AtRisk /\ ~AtRisk' /\ ~Refused') \/ (Refused /\ (AtRisk' => AtRisk) /\ ~Refused')
    PROVE  Balanced'
<1>1. Cardinality(Orphans') <= Cardinality(Orphans) + 1 /\ Cardinality(Orphans') \in Nat
      /\ Cardinality(Orphans) \in Nat
  BY OneMoreOrphan, OrphansCount, OrphansCountThen
<1>2. Owed' + 1 <= Owed /\ Owed' \in Nat /\ Owed \in Nat
  BY DEF Owed
<1>3. excuses + throttles \in Nat
  BY CardTypes
<1>4. Cardinality(Orphans) + Owed <= excuses + throttles /\ excuses' = excuses /\ throttles' = throttles
  BY DEF Balanced
<1>5. Cardinality(Orphans') + Owed' <= excuses + throttles
  BY <1>1, <1>2, <1>3, <1>4, Spends
<1> QED BY <1>4, <1>5 DEF Balanced

-----------------------------------------------------------------------------
\* What the eye can tell of the state, type by type.
LEMMA Seen ==
    ASSUME Face!TypeOK
    PROVE  /\ turn.phase \in Face!Kinds /\ turn.card \in {0} \cup Face!Messages
           /\ row \in {0} \cup Face!Messages /\ adopted \in BOOLEAN
           /\ batch = Face!Absent <=> batch.op = "none"
           /\ batch.op \in {"none", "post", "edit", "activity"}
           /\ card # Face!Absent => card \in CardFields
           /\ \A t \in Face!Tasks : at[t].pc \in Steps /\ at[t].id \in {0} \cup Face!Messages
           /\ screen \in [Face!Messages -> Face!Kinds \cup {"none", "gone"}]
           /\ excuses \in Nat /\ throttles \in Nat
<1>1. batch = Face!Absent \/ batch \in [op : {"post", "edit", "activity"}, kind : Face!Kinds]
  BY CardTypes
<1>2. batch.op \in {"none", "post", "edit", "activity"} /\ (batch = Face!Absent <=> batch.op = "none")
  BY <1>1, ABatchIsSomething DEF Face!Absent
<1> QED BY <1>2, CardTypes

LEMMA TickBalances == ASSUME Accounted, Face!Tick PROVE Accounted'
<1>1. Face!TypeOK /\ Locked /\ Spoken /\ Faced /\ Rows /\ Marks /\ Hands /\ Found /\ Balanced /\ Drawable'
  BY TickDraws DEF Accounted, Drawable
<1>2. /\ card \in CardFields /\ card # Face!Absent /\ at["poller"].pc = "free" /\ at["ticker"].pc = "free"
      /\ UNCHANGED <<turn, turns, row, batch, adopted, screen, mishaps, throttles, excuses>>
      /\ card' = [card EXCEPT !.dirty = @ \/ card.kind \in Face!Live]
  BY <1>1, CardIsThere DEF Face!Tick, Face!LockFree, Face!At, Face!Tasks, Face!Present
<1>3. /\ card' \in CardFields /\ card' # Face!Absent /\ card'.kind = card.kind /\ card'.id = card.id
      /\ card'.known = card.known /\ card'.retire = card.retire /\ card'.shown = card.shown
      /\ card'.held = card.held /\ card.dirty => card'.dirty
      /\ card'.dirty => card.dirty \/ card.kind = "working"
  BY <1>2, ACardIsSomething DEF CardFields, Face!Live
<1>4. /\ at'["ticker"].pc = "flush" /\ at'["poller"] = at["poller"] /\ at'["poller"].pc = "free"
  BY <1>1, <1>2, Goes DEF Face!Tick, Face!Tasks, Steps
<1>s. /\ turn.phase \in Face!Kinds
      /\ batch = Face!Absent <=> batch.op = "none"
      /\ batch.op \in {"none", "post", "edit", "activity"}
  BY <1>1, Seen
<1>5. Rows'
  BY <1>1, <1>2, <1>3, <1>4, <1>s DEF Rows, Own, Renewing, Before, Face!Present
<1>6. Marks'
  BY <1>1, <1>2, <1>3, <1>4, <1>s DEF Marks, Ending, Posting, Before, Face!Present, Face!Terminal
<1>7. Hands'
  BY <1>1, <1>2, <1>3, <1>4, <1>s DEF Hands, Face!At, Face!Tasks, Face!Present
<1>8. Found'
  BY <1>1, <1>2, <1>3, <1>4, <1>s DEF Found, Before, Face!Present
<1>9. Own' = Own
  BY <1>2, <1>3, <1>4 DEF Own
<1>10. Orphans' \subseteq Orphans
  BY <1>2, <1>9 DEF Orphans, Face!Stops
<1>11. AtRisk' => AtRisk
  <2>1. HeldBack' => HeldBack
    BY <1>1, <1>2, <1>3, <1>4, <1>s DEF HeldBack, Renewing, Before, Face!Present
  <2>2. Unretired' => AtRisk
    BY <1>1, <1>2, <1>3, <1>4, <1>s, <1>9 DEF AtRisk, Unretired, Marks, Ending, Posting, Drawing, Sending,
       Last, Before, Face!Present, Face!Stops, Face!Terminal, Face!Live
  <2>3. TakenAway' => TakenAway
    BY <1>1, <1>2, <1>3, <1>4, <1>s, <1>9 DEF TakenAway, Posting, Before, Sending, Last, Face!Present
  <2>4. Outdated' => AtRisk
    BY <1>1, <1>2, <1>3, <1>4, <1>s, <1>9 DEF AtRisk, Outdated, Posting, Before, Drawing, Last, Face!Present,
       Faced, Heard, Found, Rows, Own, Writing
  <2>5. Unrecorded' => Unrecorded
    BY <1>1, <1>2, <1>3, <1>4, <1>s, <1>9 DEF Unrecorded, Sending, Before, Ending, Face!Present
  <2> QED BY <2>1, <2>2, <2>3, <2>4, <2>5 DEF AtRisk
<1>12. Refused' => Refused
  BY <1>4 DEF Refused
<1> QED BY <1>1, <1>2, <1>5, <1>6, <1>7, <1>8, <1>10, <1>11, <1>12, BalanceStands DEF Accounted
-----------------------------------------------------------------------------
\* A task that writes, and the other that waits.
Underway(t) ==
    /\ Face!TypeOK /\ Locked /\ Spoken /\ Faced /\ Rows /\ Marks /\ Hands /\ Found /\ Balanced
    /\ card \in CardFields /\ card # Face!Absent /\ adopted
    /\ \A u \in Face!Tasks \ {t} : at[u].pc = "free"
    /\ turn.phase \in Face!Kinds /\ card.kind \in Face!Kinds /\ card.id \in {0} \cup Face!Messages
    /\ batch = Face!Absent <=> batch.op = "none"
    /\ batch.op \in {"none", "post", "edit", "activity"}
    /\ row \in {0} \cup Face!Messages
    /\ screen \in [Face!Messages -> Face!Kinds \cup {"none", "gone"}]

LEMMA AlongTheWay ==
    ASSUME Accounted, NEW t \in Face!Tasks, at[t].pc \in Writing
    PROVE  Underway(t)
<1>1. Drawable /\ Rows /\ Marks /\ Hands /\ Found /\ Balanced
  BY DEF Accounted
<1>2. card \in CardFields /\ card # Face!Absent /\ \A u \in Face!Tasks \ {t} : at[u].pc = "free"
  BY <1>1, CardInHand DEF Face!Present
<1>3. adopted
  BY <1>1, <1>2, CardTypes DEF Rows, Drawable
<1>4. card.kind \in Face!Kinds /\ card.id \in {0} \cup Face!Messages
  BY <1>2 DEF CardFields
<1> QED BY <1>1, <1>2, <1>3, <1>4, Seen DEF Drawable, Underway

LEMMA SkipBalances == ASSUME Accounted, NEW t \in Face!Tasks, Face!Skip(t) PROVE Accounted'
<1>1. at[t].pc = "flush" /\ at[t].pc \in Writing /\ Drawable'
  BY SkipDraws DEF Accounted, Face!Skip, Face!At, Writing
<1>2. Underway(t)
  BY <1>1, AlongTheWay
<1>3. /\ UNCHANGED <<turn, turns, row, batch, adopted, screen, mishaps, throttles, excuses>>
      /\ card' \in CardFields /\ card' # Face!Absent /\ card'.kind = card.kind /\ card'.id = card.id
      /\ card'.known = card.known /\ card'.retire = card.retire /\ card'.shown = card.shown
      /\ card'.held = card.held
      /\ \/ card'.dirty = card.dirty /\ ~(card.dirty /\ card.known /\ ~card.held)
         \/ card.dirty /\ ~card'.dirty /\ card.known /\ ~card.held /\ card.id # 0 /\ card.shown = card.kind
         \/ card.dirty /\ card'.dirty /\ card.id # 0 /\ card.kind \notin Face!Terminal /\ ~card.retire
  BY <1>2, ACardIsSomething DEF Face!Skip, Face!Due, Face!Unchanged, CardFields, Underway
<1>4. at'[t].pc = "retire" /\ \A u \in Face!Tasks \ {t} : at'[u] = at[u]
  BY <1>2, Goes DEF Face!Skip, Steps, Underway
<1>5. Rows'
  BY <1>1, <1>2, <1>3, <1>4 DEF Rows, Own, Renewing, Before, Face!Present, Face!Tasks, Underway
<1>6. Marks'
  BY <1>1, <1>2, <1>3, <1>4 DEF Marks, Ending, Posting, Before, Face!Present, Face!Terminal, Face!Tasks,
     Underway
<1>7. Hands'
  BY <1>1, <1>2, <1>3, <1>4 DEF Hands, Face!At, Face!Tasks, Face!Present, Underway
<1>8. Found'
  BY <1>1, <1>2, <1>3, <1>4 DEF Found, Before, Face!Present, Face!Tasks, Underway
<1>9. Own' = Own
  BY <1>1, <1>2, <1>3, <1>4 DEF Own, Face!Tasks, Underway
<1>10. Orphans' \subseteq Orphans
  BY <1>3, <1>9 DEF Orphans, Face!Stops
<1>11. AtRisk' => AtRisk
  <2>1. HeldBack' => HeldBack
    BY <1>1, <1>2, <1>3, <1>4 DEF HeldBack, Renewing, Before, Face!Present, Face!Tasks, Underway
  <2>2. Unretired' => Unretired
    <3> SUFFICES ASSUME Unretired' PROVE Unretired
      OBVIOUS
    <3>1. card.retire /\ Face!Present /\ Last' = Last
      BY <1>2, <1>3 DEF Unretired, Last, Face!Present, Underway
    <3>2. CASE card.kind \notin Face!Terminal
      BY <3>1, <3>2 DEF Unretired
    <3>3. CASE ~card'.dirty /\ Own \in Face!Stops
      <4>1. CASE ~card.dirty
        BY <3>1, <3>3, <4>1 DEF Unretired
      <4>2. CASE card.dirty
        <5>1. card.id # 0 /\ card.shown = card.kind /\ Own = card.id
          BY <1>1, <1>2, <1>3, <3>3, <4>2 DEF Own, Face!Tasks, Underway
        <5>2. screen[card.id] \in {card.kind, "gone"} /\ card.kind # "none"
          BY <1>2, <3>1, <5>1 DEF Hands, Face!Kinds, Face!Terminal, Underway
        <5>3. card.kind \notin Face!Terminal
          BY <3>3, <5>1, <5>2 DEF Face!Stops, Face!Kinds, Face!Terminal
        <5> QED BY <3>1, <5>3 DEF Unretired
      <4> QED BY <4>1, <4>2
    <3>4. CASE card'.dirty /\ turn.phase # "dead" /\ (Own # 0 \/ Last # 0)
      <4>1. card.dirty /\ ~(card.known /\ ~card.held)
        BY <1>3, <3>1, <3>4
      <4>2. ~(Drawing /\ batch.op \in {"post", "edit"})
        BY <1>1, <1>2, <3>1, <4>1 DEF Drawing, Found, Before, Underway
      <4>3. ~Sending
        BY <1>1, <1>2 DEF Sending, Face!Tasks, Underway
      <4> QED BY <3>1, <3>4, <4>1, <4>2, <4>3 DEF Unretired
    <3> QED BY <1>3, <1>9, <3>1, <3>2, <3>3, <3>4 DEF Unretired, Face!Stops
  <2>3. TakenAway' => TakenAway
    BY <1>1, <1>2, <1>3, <1>4, <1>9 DEF TakenAway, Posting, Before, Sending, Last, Face!Present, Face!Tasks,
       Underway
  <2>4. Outdated' => AtRisk
    BY <1>1, <1>2, <1>3, <1>4, <1>9 DEF AtRisk, HeldBack, Outdated, Unrecorded, Marks, Sending, Ending,
       Posting, Before, Drawing, Last, Face!Present, Faced, Heard, Found, Rows, Own, Writing, Face!Tasks,
       Underway
  <2>5. Unrecorded' => Unrecorded
    BY <1>1, <1>2, <1>3, <1>4, <1>9 DEF Unrecorded, Sending, Before, Ending, Face!Present, Face!Tasks, Underway
  <2> QED BY <2>1, <2>2, <2>3, <2>4, <2>5 DEF AtRisk
<1>12. Refused' => Refused
  BY <1>1, <1>2, <1>4 DEF Refused, Face!Tasks, Underway
<1> QED BY <1>1, <1>2, <1>3, <1>5, <1>6, <1>7, <1>8, <1>10, <1>11, <1>12, BalanceStands DEF Accounted, Underway

LEMMA PostBalances == ASSUME Accounted, NEW t \in Face!Tasks, Face!Post(t) PROVE Accounted'
<1>1. at[t].pc = "flush" /\ at[t].pc \in Writing /\ Drawable'
  BY PostDraws DEF Accounted, Face!Post, Face!Calling, Face!At, Writing
<1>2. Underway(t)
  BY <1>1, AlongTheWay
<1>3. PICK m \in Face!Messages : /\ screen[m] = "none" /\ screen' = [screen EXCEPT ![m] = card.kind]
                                 /\ at' = [at EXCEPT ![t] = [pc |-> "fetch", id |-> m]]
  BY DEF Face!Post, Face!Unposted
<1>4. /\ UNCHANGED <<turn, turns, row, batch, card, adopted, mishaps, throttles, excuses>>
      /\ card.dirty /\ card.known /\ ~card.held /\ card.id = 0
  BY DEF Face!Post, Face!Calling, Face!Due
<1>5. /\ at'[t].pc = "fetch" /\ at'[t].id = m /\ \A u \in Face!Tasks \ {t} : at'[u] = at[u]
  BY <1>2, <1>3, CardTypes DEF Underway
<1>6. /\ m # 0 /\ screen'[m] = card.kind
      /\ \A n \in Face!Messages \ {m} : screen'[n] = screen[n]
  BY <1>2, <1>3, NoMessageIsZero DEF Underway
<1>7. Own' = m /\ Own = 0
  BY <1>1, <1>2, <1>4, <1>5 DEF Own, Face!Tasks, Underway
<1>8. Rows'
  BY <1>1, <1>2, <1>4, <1>5, <1>6, <1>7 DEF Rows, Renewing, Before, Face!Present, Face!Tasks, Underway
<1>9. Marks'
  BY <1>1, <1>2, <1>4, <1>5 DEF Marks, Ending, Posting, Before, Face!Present, Face!Terminal, Face!Tasks,
     Underway
<1>10. Hands'
  BY <1>1, <1>2, <1>4, <1>5, <1>6 DEF Hands, Face!At, Face!Tasks, Face!Present, Underway
<1>11. Found'
  BY <1>1, <1>2, <1>4, <1>5 DEF Found, Before, Face!Present, Face!Tasks, Underway
<1>12. Orphans' \subseteq Orphans
  BY <1>6, <1>7, NoMessageIsZero DEF Orphans, Face!Stops
<1>13. AtRisk' => AtRisk
  <2>1. ~HeldBack'
    BY <1>4 DEF HeldBack
  <2>2. Unretired' => Unretired
    BY <1>1, <1>2, <1>4, <1>5, <1>7 DEF Unretired, Sending, Face!Present, Face!Tasks, Underway
  <2>3. ~TakenAway'
    BY <1>2, <1>6, <1>7 DEF TakenAway, Face!Kinds, Face!Terminal, Underway
  <2>4. Outdated' => Outdated
    BY <1>1, <1>2, <1>4, <1>5, <1>7 DEF Outdated, Posting, Before, Drawing, Last, Face!Present, Face!Tasks,
       Underway
  <2>5. ~Unrecorded'
    BY <1>1, <1>5 DEF Unrecorded, Sending, Face!Tasks
  <2> QED BY <2>1, <2>2, <2>3, <2>4, <2>5 DEF AtRisk
<1>14. Refused' => Refused
  BY <1>1, <1>2, <1>5 DEF Refused, Face!Tasks, Underway
<1> QED BY <1>1, <1>2, <1>4, <1>8, <1>9, <1>10, <1>11, <1>12, <1>13, <1>14, BalanceStands DEF Accounted,
   Underway
LEMMA PostedBalances == ASSUME Accounted, NEW t \in Face!Tasks, Face!Posted(t) PROVE Accounted'
<1>1. at[t].pc = "fetch" /\ at[t].pc \in Writing /\ Drawable'
  BY PostedDraws DEF Accounted, Face!Posted, Face!At, Writing
<1>2. Underway(t)
  BY <1>1, AlongTheWay
<1>3. /\ card.id = 0 /\ ~card.held /\ card.dirty /\ card.known
      /\ at[t].id \in Face!Messages /\ at[t].id # 0 /\ screen[at[t].id] \in {card.kind, "gone"}
  BY <1>1, <1>2, NoMessageIsZero DEF Underway, Hands, Locked, Face!At
<1>4. /\ UNCHANGED <<turn, turns, row, batch, adopted, screen, mishaps, throttles, excuses>>
      /\ card' = [card EXCEPT !.id = at[t].id, !.shown = card.kind, !.dirty = FALSE]
  BY DEF Face!Posted, Face!Drawn
<1>5. /\ card' \in CardFields /\ card' # Face!Absent /\ card'.kind = card.kind /\ card'.id = at[t].id
      /\ card'.known /\ card'.retire = card.retire /\ card'.shown = card.kind /\ ~card'.held /\ ~card'.dirty
  BY <1>2, <1>3, <1>4, ACardIsSomething DEF CardFields, Underway
<1>6. /\ at'[t].pc = "persist" /\ at'[t].id = at[t].id /\ \A u \in Face!Tasks \ {t} : at'[u] = at[u]
  BY <1>2, Goes DEF Face!Posted, Steps, Underway
<1>7. Own' = at[t].id /\ Own = at[t].id
  BY <1>1, <1>2, <1>4, <1>5, <1>6 DEF Own, Face!Tasks, Underway
<1>8. Rows'
  BY <1>1, <1>2, <1>4, <1>5, <1>6, <1>7 DEF Rows, Renewing, Before, Face!Present, Face!Tasks, Underway
<1>9. Marks'
  BY <1>1, <1>2, <1>4, <1>5, <1>6 DEF Marks, Ending, Posting, Before, Face!Present, Face!Terminal, Face!Tasks,
     Underway
<1>10. Hands'
  BY <1>1, <1>2, <1>3, <1>4, <1>5, <1>6 DEF Hands, Face!At, Face!Tasks, Face!Present, Underway
<1>11. Found'
  BY <1>5 DEF Found
<1>12. Orphans' \subseteq Orphans
  BY <1>4, <1>7 DEF Orphans, Face!Stops
<1>13. AtRisk' => AtRisk
  <2>1. ~HeldBack'
    BY <1>5 DEF HeldBack
  <2>2. Unretired' => Unretired
    BY <1>2, <1>3, <1>4, <1>5, <1>7 DEF Unretired, Face!Present, Face!Stops, Face!Kinds, Face!Terminal, Underway
  <2>3. TakenAway' => TakenAway
    BY <1>1, <1>2, <1>4, <1>6, <1>7 DEF TakenAway, Posting, Before, Sending, Face!Tasks, Underway
  <2>4. Outdated' => Outdated
    BY <1>1, <1>2, <1>3, <1>4, <1>5, <1>6, <1>7 DEF Outdated, Posting, Before, Drawing, Last, Face!Present,
       Face!Tasks, Underway
  <2>5. ~Unrecorded'
    BY <1>6 DEF Unrecorded, Sending, Face!Tasks
  <2> QED BY <2>1, <2>2, <2>3, <2>4, <2>5 DEF AtRisk
<1>14. Refused' => Refused
  BY <1>1, <1>2, <1>6 DEF Refused, Face!Tasks, Underway
<1> QED BY <1>1, <1>2, <1>4, <1>8, <1>9, <1>10, <1>11, <1>12, <1>13, <1>14, BalanceStands DEF Accounted,
   Underway

LEMMA PersistBalances == ASSUME Accounted, NEW t \in Face!Tasks, Face!Persist(t) PROVE Accounted'
<1>1. at[t].pc = "persist" /\ at[t].pc \in Writing /\ Drawable'
  BY PersistDraws DEF Accounted, Face!Persist, Face!At, Writing
<1>2. Underway(t)
  BY <1>1, AlongTheWay
<1>3. /\ ~card.dirty /\ ~card.held /\ card.known /\ card.shown = card.kind
      /\ card.id = at[t].id /\ card.id # 0 /\ screen[card.id] \in {card.kind, "gone"}
  BY <1>1, <1>2, NoMessageIsZero DEF Underway, Hands, Locked, Face!At, Face!Present, Face!Kinds, Face!Terminal
<1>4. /\ UNCHANGED <<turn, turns, card, batch, adopted, screen, mishaps, throttles, excuses>>
      /\ row' = card.id
  BY <1>3 DEF Face!Persist
<1>5. /\ at'[t].pc = "retire" /\ \A u \in Face!Tasks \ {t} : at'[u] = at[u]
  BY <1>2, Goes DEF Face!Persist, Steps, Underway
<1>6. Own' = card.id /\ Own = card.id
  BY <1>1, <1>2, <1>4, <1>5 DEF Own, Face!Tasks, Underway
<1>7. Rows'
  BY <1>1, <1>2, <1>3, <1>4, <1>5, <1>6 DEF Rows, Renewing, Before, Face!Present, Face!Tasks, Underway
<1>8. Marks'
  BY <1>1, <1>2, <1>4, <1>5 DEF Marks, Ending, Posting, Before, Face!Present, Face!Terminal, Face!Tasks,
     Underway
<1>9. Hands'
  BY <1>1, <1>2, <1>3, <1>4, <1>5 DEF Hands, Face!At, Face!Tasks, Face!Present, Underway
<1>10. Found'
  BY <1>3, <1>4 DEF Found
<1>11. Orphans' \subseteq Orphans
  BY <1>4, <1>6 DEF Orphans, Face!Stops
<1>12. AtRisk' => AtRisk
  <2>1. ~HeldBack'
    BY <1>3, <1>4 DEF HeldBack
  <2>2. Unretired' => Unretired
    BY <1>3, <1>4, <1>6 DEF Unretired, Face!Present, Face!Stops
  <2>3. TakenAway' => TakenAway
    BY <1>1, <1>2, <1>4, <1>5, <1>6 DEF TakenAway, Posting, Before, Sending, Face!Tasks, Underway
  <2>4. Outdated' => Outdated
    BY <1>1, <1>2, <1>3, <1>4, <1>5, <1>6 DEF Outdated, Posting, Before, Drawing, Last, Locked, Face!At,
       Face!Present, Face!Tasks, Underway
  <2>5. ~Unrecorded'
    BY <1>4, <1>6 DEF Unrecorded
  <2> QED BY <2>1, <2>2, <2>3, <2>4, <2>5 DEF AtRisk
<1>13. Refused' => Refused
  BY <1>1, <1>2, <1>5 DEF Refused, Face!Tasks, Underway
<1> QED BY <1>1, <1>2, <1>4, <1>7, <1>8, <1>9, <1>10, <1>11, <1>12, <1>13, BalanceStands DEF Accounted, Underway

LEMMA EditBalances == ASSUME Accounted, NEW t \in Face!Tasks, Face!Edit(t) PROVE Accounted'
<1>1. at[t].pc = "flush" /\ at[t].pc \in Writing /\ Drawable'
  BY EditDraws DEF Accounted, Face!Edit, Face!Calling, Face!At, Writing
<1>2. Underway(t)
  BY <1>1, AlongTheWay
<1>3. /\ UNCHANGED <<turn, turns, row, batch, adopted, mishaps, throttles, excuses>>
      /\ card.dirty /\ card.known /\ ~card.held /\ card.id # 0 /\ card.id \in Face!Messages
  BY <1>2 DEF Face!Edit, Face!Calling, Face!Due, Underway
<1>4. at'[t].pc = "retire" /\ \A u \in Face!Tasks \ {t} : at'[u] = at[u]
  BY <1>2, Goes DEF Face!Edit, Steps, Underway
<1>5. Own = card.id
  BY <1>1, <1>2, <1>3 DEF Own, Face!Tasks, Underway
<1>6. ~Drawing' /\ ~Sending' /\ ~Sending
  BY <1>1, <1>2, <1>4 DEF Drawing, Sending, Face!Tasks, Underway
<1>7. Before' => Before
  BY <1>1, <1>2, <1>4 DEF Before, Face!Tasks, Underway
<1>8. /\ t = "poller" => ~Before' /\ ~Before
      /\ t = "ticker" => at'["poller"] = at["poller"] /\ at["poller"].pc = "free"
  BY <1>1, <1>2, <1>4 DEF Before, Face!Tasks, Underway
<1>9. CASE screen[card.id] = "gone"
  <2>1. screen' = screen /\ card' = [card EXCEPT !.id = 0]
    BY <1>9 DEF Face!Edit
  <2>2. /\ card' \in CardFields /\ card' # Face!Absent /\ card'.kind = card.kind /\ card'.id = 0
        /\ card'.known /\ card'.retire = card.retire /\ card'.shown = card.shown /\ ~card'.held /\ card'.dirty
    BY <1>2, <1>3, <2>1, ACardIsSomething DEF CardFields, Underway
  <2>3. Own' = 0
    BY <1>1, <1>2, <1>3, <1>4, <2>2 DEF Own, Face!Tasks, Underway
  <2>4. Rows'
    BY <1>2, <1>3, <1>5, <1>7, <1>9, <2>1, <2>2, <2>3 DEF Rows, Renewing, Face!Present, Underway
  <2>5. Marks'
    BY <1>1, <1>2, <1>3, <1>4, <1>8, <2>2 DEF Marks, Ending, Posting, Before, Face!Present, Face!Terminal,
       Face!Tasks, Underway
  <2>6. Hands'
    BY <1>1, <1>2, <1>4, <2>1, <2>2 DEF Hands, Face!At, Face!Tasks, Face!Present, Underway
  <2>7. Found'
    BY <2>2 DEF Found
  <2>8. Orphans' \subseteq Orphans
    BY <1>5, <1>9, <2>1, <2>3 DEF Orphans, Face!Stops, Face!Kinds, Face!Terminal
  <2>9. AtRisk' => AtRisk
    <3>1. ~HeldBack' /\ ~TakenAway' /\ ~Unrecorded'
      BY <2>2, <2>3 DEF HeldBack, TakenAway, Unrecorded
    <3>2. Outdated' => TakenAway
      BY <1>2, <1>3, <1>5, <1>8, <1>9 DEF Outdated, TakenAway, Posting, Before, Face!Present, Face!Tasks,
         Underway
    <3>3. Unretired' => AtRisk
      <4> SUFFICES ASSUME Unretired' PROVE AtRisk
        OBVIOUS
      <4>1. card.retire /\ Face!Present /\ Last' = Last
        BY <1>2, <1>3, <2>2 DEF Unretired, Last, Face!Present, Underway
      <4>2. CASE card.kind \notin Face!Terminal
        BY <4>1, <4>2 DEF Unretired, AtRisk
      <4>3. CASE turn.phase # "dead" /\ Last # 0 /\ card.kind \in Face!Terminal
        <5>1. CASE Drawing
          <6>1. Faced /\ at["poller"].pc = "flush" /\ card.kind = turn.phase
            BY <1>2, <1>3, <5>1 DEF Drawing, Faced, Heard, Writing, Face!Present, Underway
          <6>2. turn.phase = "done"
            BY <1>2, <4>3, <6>1 DEF Face!Terminal
          <6> QED BY <1>3, <1>5, <1>9, <4>1, <4>3, <6>1, <6>2 DEF TakenAway, AtRisk, Posting, Before
        <5>2. CASE ~Drawing
          BY <1>3, <1>6, <4>1, <4>3, <5>2 DEF Unretired, AtRisk
        <5> QED BY <5>1, <5>2
      <4> QED BY <1>3, <2>2, <2>3, <4>1, <4>2, <4>3 DEF Unretired
    <3> QED BY <3>1, <3>2, <3>3 DEF AtRisk
  <2>10. Refused' => Refused
    BY <2>3, NoMessageIsZero DEF Refused, Face!Stops
  <2> QED BY <1>1, <1>2, <1>3, <2>4, <2>5, <2>6, <2>7, <2>8, <2>9, <2>10, BalanceStands DEF Accounted, Underway
<1>10. CASE screen[card.id] # "gone"
  <2>1. /\ screen' = [screen EXCEPT ![card.id] = card.kind]
        /\ card' = [card EXCEPT !.id = card.id, !.shown = card.kind, !.dirty = FALSE]
    BY <1>10 DEF Face!Edit, Face!Drawn
  <2>2. /\ card' \in CardFields /\ card' # Face!Absent /\ card'.kind = card.kind /\ card'.id = card.id
        /\ card'.known /\ card'.retire = card.retire /\ card'.shown = card.kind /\ ~card'.held /\ ~card'.dirty
    BY <1>2, <1>3, <2>1, ACardIsSomething DEF CardFields, Underway
  <2>3. Own' = card.id
    BY <1>1, <1>2, <1>3, <1>4, <2>2 DEF Own, Face!Tasks, Underway
  <2>4. screen'[card.id] = card.kind /\ \A n \in Face!Messages \ {card.id} : screen'[n] = screen[n]
    BY <1>2, <1>3, <2>1 DEF Underway
  <2>5. Rows'
    BY <1>2, <1>3, <1>5, <1>7, <2>2, <2>3, <2>4 DEF Rows, Renewing, Face!Present, Underway
  <2>6. Marks'
    BY <1>1, <1>2, <1>3, <1>4, <1>8, <2>2 DEF Marks, Ending, Posting, Before, Face!Present, Face!Terminal,
       Face!Tasks, Underway
  <2>7. Hands'
    BY <1>1, <1>2, <1>4, <2>2, <2>4 DEF Hands, Face!At, Face!Tasks, Face!Present, Underway
  <2>8. Found'
    BY <2>2 DEF Found
  <2>9. Orphans' \subseteq Orphans
    BY <1>5, <2>3, <2>4 DEF Orphans, Face!Stops
  <2>10. AtRisk' => AtRisk
    <3>1. ~HeldBack' /\ ~TakenAway'
      BY <1>2, <2>2, <2>3, <2>4 DEF HeldBack, TakenAway, Face!Kinds, Face!Terminal, Underway
    <3>2. Unretired' => Unretired
      BY <1>2, <2>2, <2>3, <2>4 DEF Unretired, Face!Present, Face!Stops, Face!Terminal, Underway
    <3>3. Unrecorded' => Unrecorded
      BY <1>2, <1>3, <1>5, <1>6, <1>8, <2>2, <2>3 DEF Unrecorded, Ending, Before, Face!Present, Face!Tasks,
         Underway
    <3>4. Outdated' => AtRisk
      BY <1>1, <1>2, <1>3, <1>5, <1>6, <1>8, <2>2, <2>3 DEF AtRisk, Outdated, Unrecorded, Marks, Ending,
         Posting, Before, Drawing, Last, Face!Present, Rows, Face!Tasks, Underway
    <3> QED BY <3>1, <3>2, <3>3, <3>4 DEF AtRisk
  <2>11. Refused' => Refused
    BY <1>1, <1>2, <1>4 DEF Refused, Face!Tasks, Underway
  <2> QED BY <1>1, <1>2, <1>3, <2>5, <2>6, <2>7, <2>8, <2>9, <2>10, <2>11, BalanceStands DEF Accounted, Underway
<1> QED BY <1>9, <1>10

LEMMA ThrottledBalances == ASSUME Accounted, NEW t \in Face!Tasks, Face!Throttled(t) PROVE Accounted'
<1>1. at[t].pc = "flush" /\ at[t].pc \in Writing /\ Drawable'
  BY ThrottledDraws DEF Accounted, Face!Throttled, Face!Calling, Face!At, Writing
<1>2. Underway(t)
  BY <1>1, AlongTheWay
<1>3. /\ UNCHANGED <<turn, turns, row, batch, adopted, screen, mishaps, excuses>>
      /\ throttles' = throttles + 1 /\ card' = [card EXCEPT !.held = TRUE]
      /\ card.dirty /\ card.known /\ ~card.held
  BY DEF Face!Throttled, Face!Calling, Face!Due
<1>4. /\ card' \in CardFields /\ card' # Face!Absent /\ card'.kind = card.kind /\ card'.id = card.id
      /\ card'.known /\ card'.retire = card.retire /\ card'.shown = card.shown /\ card'.held /\ card'.dirty
  BY <1>2, <1>3, ACardIsSomething DEF CardFields, Underway
<1>5. at'[t].pc = "retire" /\ \A u \in Face!Tasks \ {t} : at'[u] = at[u]
  BY <1>2, Goes DEF Face!Throttled, Steps, Underway
<1>6. Own' = Own
  BY <1>1, <1>2, <1>3, <1>4, <1>5 DEF Own, Face!Tasks, Underway
<1>7. Rows'
  BY <1>1, <1>2, <1>3, <1>4, <1>5, <1>6 DEF Rows, Renewing, Before, Face!Present, Face!Tasks, Underway
<1>8. Marks'
  BY <1>1, <1>2, <1>3, <1>4, <1>5 DEF Marks, Ending, Posting, Before, Face!Present, Face!Terminal, Face!Tasks,
     Underway
<1>9. Hands'
  BY <1>1, <1>2, <1>3, <1>4, <1>5 DEF Hands, Face!At, Face!Tasks, Face!Present, Underway
<1>10. Found'
  BY <1>4 DEF Found
<1>11. Orphans' \subseteq Orphans
  BY <1>3, <1>6 DEF Orphans, Face!Stops
<1>12. Refused' => Refused
  BY <1>1, <1>2, <1>5 DEF Refused, Face!Tasks, Underway
<1>13. excuses' + throttles' = excuses + throttles + 1
  BY <1>2, <1>3, CardTypes DEF Underway
<1>14. Balanced'
  BY <1>2, <1>11, <1>12, <1>13, BalanceIsPaid DEF Underway
<1> QED BY <1>1, <1>7, <1>8, <1>9, <1>10, <1>14 DEF Accounted

LEMMA FailedBalances == ASSUME Accounted, NEW t \in Face!Tasks, Face!Failed(t) PROVE Accounted'
<1>1. at[t].pc = "flush" /\ at[t].pc \in Writing /\ Drawable'
  BY FailedDraws DEF Accounted, Face!Failed, Face!Calling, Face!At, Writing
<1>2. Underway(t)
  BY <1>1, AlongTheWay
<1>3. /\ UNCHANGED <<turn, turns, row, batch, adopted, throttles>>
      /\ excuses' = excuses + 1 /\ card' = [card EXCEPT !.dirty = FALSE]
      /\ card.dirty /\ card.known /\ ~card.held
  BY DEF Face!Failed, Face!Calling, Face!Due, Face!Excuse
<1>4. /\ card' \in CardFields /\ card' # Face!Absent /\ card'.kind = card.kind /\ card'.id = card.id
      /\ card'.known /\ card'.retire = card.retire /\ card'.shown = card.shown /\ ~card'.held /\ ~card'.dirty
  BY <1>2, <1>3, ACardIsSomething DEF CardFields, Underway
<1>5. at'[t].pc = "retire" /\ \A u \in Face!Tasks \ {t} : at'[u] = at[u]
  BY <1>2, Goes DEF Face!Failed, Steps, Underway
<1>6. Own' = Own /\ Own = card.id
  BY <1>1, <1>2, <1>3, <1>4, <1>5 DEF Own, Face!Tasks, Underway
<1>7. PICK m : /\ \A n \in Face!Messages \ {m} : screen'[n] = screen[n]
               /\ screen' = screen \/ (card.id = 0 /\ m \in Face!Messages /\ screen[m] = "none")
  <2>1. CASE screen' = screen
    BY <2>1
  <2>2. CASE screen' # screen
    <3>1. PICK m \in Face!Unposted : card.id = 0 /\ screen' = [screen EXCEPT ![m] = card.kind]
      BY <2>2 DEF Face!Failed
    <3> QED BY <1>2, <3>1 DEF Face!Unposted, Underway
  <2> QED BY <2>1, <2>2
<1>8. Rows'
  BY <1>1, <1>2, <1>3, <1>4, <1>5, <1>6, <1>7, NoMessageIsZero DEF Rows, Renewing, Before, Face!Present,
     Face!Tasks, Underway
<1>9. Marks'
  BY <1>1, <1>2, <1>3, <1>4, <1>5 DEF Marks, Ending, Posting, Before, Face!Present, Face!Terminal, Face!Tasks,
     Underway
<1>10. Hands'
  BY <1>1, <1>2, <1>3, <1>4, <1>5, <1>7 DEF Hands, Face!At, Face!Tasks, Face!Present, Underway
<1>11. Found'
  BY <1>4 DEF Found
<1>12. Orphans' \subseteq Orphans \cup {m}
  BY <1>6, <1>7 DEF Orphans, Face!Stops
<1>13. Refused' => Refused
  BY <1>1, <1>2, <1>5 DEF Refused, Face!Tasks, Underway
<1>14. screen' # screen => (AtRisk' => AtRisk)
  <2> SUFFICES ASSUME card.id = 0 PROVE AtRisk' => AtRisk
    BY <1>7
  <2>1. ~HeldBack' /\ ~TakenAway' /\ ~Outdated' /\ ~Unrecorded'
    BY <1>4, <1>6 DEF HeldBack, TakenAway, Outdated, Unrecorded
  <2>2. Unretired' => Unretired
    BY <1>2, <1>4, <1>6, NoMessageIsZero DEF Unretired, Face!Present, Face!Stops, Underway
  <2> QED BY <2>1, <2>2 DEF AtRisk
<1>15. screen' = screen => Orphans' \subseteq Orphans
  BY <1>6 DEF Orphans, Face!Stops
<1>16. excuses' + throttles' = excuses + throttles + 1
  BY <1>2, <1>3, CardTypes DEF Underway
<1>17. Balanced'
  BY <1>2, <1>12, <1>13, <1>14, <1>15, <1>16, BalanceIsPaid DEF Underway
<1> QED BY <1>1, <1>8, <1>9, <1>10, <1>11, <1>17 DEF Accounted
LEMMA RetireBalances == ASSUME Accounted, NEW t \in Face!Tasks, Face!Retire(t) PROVE Accounted'
<1>1. at[t].pc = "retire" /\ at[t].pc \in Writing /\ Drawable'
  BY RetireDraws DEF Accounted, Face!Retire, Face!At, Writing
<1>2. Underway(t)
  BY <1>1, AlongTheWay
<1>3. UNCHANGED <<turn, turns, batch, adopted, screen, mishaps, throttles, excuses>>
  BY DEF Face!Retire
<1>4. /\ [Face!Free EXCEPT !.pc = "sync"] = [pc |-> "sync", id |-> 0]
      /\ Face!Free = [pc |-> "free", id |-> 0]
  BY DEF Face!Free
<1>5. /\ at'[t].pc = IF t = "poller" THEN "sync" ELSE "free"
      /\ \A u \in Face!Tasks \ {t} : at'[u] = at[u]
  BY <1>2, <1>4, CardTypes DEF Face!Retire, Underway
<1>6. ~Refused' /\ ~Sending' /\ ~Sending /\ ~Drawing' /\ ~Drawing
  BY <1>1, <1>2, <1>5 DEF Refused, Sending, Drawing, Face!Tasks, Underway
<1>7. /\ t = "poller" => ~Before' /\ ~Before
      /\ t = "ticker" => Before' /\ Before
      /\ t \in {"poller", "ticker"}
  BY <1>1, <1>2, <1>5 DEF Before, Face!Tasks, Underway
<1>8. CASE Face!Retires
  <2>1. card.retire /\ ~card.dirty /\ card' = Face!Absent /\ row' = 0
    BY <1>8 DEF Face!Retire, Face!Retires
  <2>2. Own' = 0
    BY <1>2, <1>3, <2>1 DEF Own, Underway
  <2>3. Rows'
    BY <1>2, <1>3, <2>1 DEF Rows, Face!Present, Underway
  <2>4. Marks' /\ Found'
    BY <2>1 DEF Marks, Found, Face!Present
  <2>5. Hands'
    BY <1>1, <1>2, <1>5, <2>1 DEF Hands, Face!At, Face!Tasks, Face!Present, Underway
  <2>6. Orphans' \subseteq Orphans \cup {Own}
    BY <1>3 DEF Orphans, Face!Stops
  <2>7. ~AtRisk'
    BY <2>1, <2>2 DEF AtRisk, HeldBack, Unretired, TakenAway, Outdated, Unrecorded, Face!Present
  <2>8. CASE Own \in Face!Stops
    <3>1. AtRisk
      BY <1>2, <2>1, <2>8 DEF AtRisk, Unretired, Face!Present, Underway
    <3>2. Balanced'
      BY <1>2, <1>3, <1>6, <2>6, <2>7, <3>1, BalanceIsSpent DEF Underway
    <3> QED BY <1>1, <2>3, <2>4, <2>5, <3>2 DEF Accounted
  <2>9. CASE Own \notin Face!Stops
    <3>1. Orphans' \subseteq Orphans
      BY <1>3, <2>9 DEF Orphans, Face!Stops
    <3>2. Balanced'
      BY <1>2, <1>3, <1>6, <2>7, <3>1, BalanceStands DEF Underway
    <3> QED BY <1>1, <2>3, <2>4, <2>5, <3>2 DEF Accounted
  <2> QED BY <2>8, <2>9
<1>9. CASE ~Face!Retires
  <2>1. card' = card /\ row' = row /\ ~(card.retire /\ ~card.dirty)
    BY <1>9 DEF Face!Retire, Face!Retires
  <2>2. Own' = Own
    BY <1>1, <1>2, <1>3, <1>5, <2>1 DEF Own, Face!Tasks, Underway
  <2>3. Rows'
    BY <1>2, <1>3, <1>7, <2>1, <2>2 DEF Rows, Renewing, Face!Present, Underway
  <2>4. Marks'
    BY <1>2, <1>3, <1>7, <2>1 DEF Marks, Ending, Posting, Face!Present, Underway
  <2>5. Found'
    BY <1>2, <1>3, <1>7, <2>1 DEF Found, Face!Present, Underway
  <2>6. Hands'
    BY <1>1, <1>2, <1>3, <1>5, <2>1 DEF Hands, Face!At, Face!Tasks, Face!Present, Underway
  <2>7. Orphans' \subseteq Orphans
    BY <1>3, <2>2 DEF Orphans, Face!Stops
  <2>8. AtRisk' => AtRisk
    <3>1. HeldBack' => HeldBack
      BY <1>3, <1>7, <2>1 DEF HeldBack, Renewing, Face!Present
    <3>2. Unretired' => Unretired
      BY <1>3, <1>6, <2>1, <2>2 DEF Unretired, Last, Face!Present
    <3>3. TakenAway' => TakenAway
      BY <1>3, <1>6, <1>7, <2>1, <2>2 DEF TakenAway, Posting, Last, Face!Present
    <3>4. Outdated' => Outdated
      BY <1>1, <1>2, <1>3, <1>6, <1>7, <2>1, <2>2 DEF Outdated, Posting, Last, Sending, Face!Present, Underway
    <3>5. Unrecorded' => Unrecorded
      BY <1>3, <1>6, <1>7, <2>1, <2>2 DEF Unrecorded, Ending, Face!Present
    <3> QED BY <3>1, <3>2, <3>3, <3>4, <3>5 DEF AtRisk
  <2>9. Balanced'
    BY <1>2, <1>3, <1>6, <2>7, <2>8, BalanceStands DEF Underway
  <2> QED BY <1>1, <2>3, <2>4, <2>5, <2>6, <2>9 DEF Accounted
<1> QED BY <1>8, <1>9

LEMMA CalmBalances == ASSUME Accounted, Face!Calm PROVE Accounted'
<1>1. Face!TypeOK /\ Locked /\ Spoken /\ Faced /\ Rows /\ Marks /\ Hands /\ Found /\ Balanced /\ Drawable'
  BY CalmDraws DEF Accounted, Drawable
<1>2. /\ card \in CardFields /\ card # Face!Absent /\ card.held
      /\ UNCHANGED <<turn, turns, row, batch, adopted, at, screen, mishaps, throttles, excuses>>
      /\ card' = [card EXCEPT !.held = FALSE]
  BY <1>1, CardIsThere DEF Face!Calm, Face!Present
<1>3. /\ card' \in CardFields /\ card' # Face!Absent /\ card'.kind = card.kind /\ card'.id = card.id
      /\ card'.known = card.known /\ card'.retire = card.retire /\ card'.shown = card.shown
      /\ ~card'.held /\ card'.dirty = card.dirty
  BY <1>2, ACardIsSomething DEF CardFields
<1>4. card.dirty /\ card'.dirty
  BY <1>1, <1>2, <1>3 DEF Marks, Face!Present
<1>5. Own' = Own
  BY <1>2, <1>3 DEF Own
<1>6. Rows'
  BY <1>1, <1>2, <1>3, <1>5 DEF Rows, Renewing, Before, Face!Present
<1>7. Marks'
  BY <1>1, <1>2, <1>3, <1>4 DEF Marks, Ending, Posting, Before, Face!Present
<1>8. Hands'
  BY <1>1, <1>2, <1>3 DEF Hands, Face!At, Face!Tasks, Face!Present
<1>9. Found'
  BY <1>1, <1>2, <1>3 DEF Found, Before, Face!Present
<1>10. Orphans' \subseteq Orphans
  BY <1>2, <1>5 DEF Orphans, Face!Stops
<1>11. AtRisk' => AtRisk
  <2>1. ~HeldBack'
    BY <1>3 DEF HeldBack
  <2>2. Unretired' => Unretired
    BY <1>2, <1>3, <1>4, <1>5 DEF Unretired, Drawing, Sending, Last, Face!Present
  <2>3. TakenAway' => TakenAway
    BY <1>2, <1>3, <1>5 DEF TakenAway, Posting, Before, Sending, Last, Face!Present
  <2>4. Outdated' => Outdated
    BY <1>2, <1>3, <1>4, <1>5 DEF Outdated, Posting, Before, Drawing, Last, Face!Present
  <2>5. Unrecorded' => Unrecorded
    BY <1>2, <1>3, <1>5 DEF Unrecorded, Sending, Before, Ending, Face!Present
  <2> QED BY <2>1, <2>2, <2>3, <2>4, <2>5 DEF AtRisk
<1>12. Refused' => Refused
  BY <1>2, <1>3, <1>5 DEF Refused, Face!Stops
<1> QED BY <1>1, <1>2, <1>6, <1>7, <1>8, <1>9, <1>10, <1>11, <1>12, BalanceStands DEF Accounted

LEMMA DeletedBalances == ASSUME Accounted, Face!Deleted PROVE Accounted'
<1>1. Face!TypeOK /\ Rows /\ Marks /\ Hands /\ Found /\ Balanced /\ Drawable'
  BY LossDraws DEF Accounted, Drawable
<1>2. /\ UNCHANGED <<turn, turns, row, batch, card, adopted, at, throttles>> /\ excuses' = excuses + 1
  BY DEF Face!Deleted, Face!Excuse
<1>3. \A n \in Face!Messages : screen'[n] \in {screen[n], "gone"}
  BY <1>1, Seen DEF Face!Deleted
<1>4. Own' = Own
  BY <1>2 DEF Own
<1>5. card.id \in {0} \cup Face!Messages \/ ~Face!Present
  BY <1>1, Seen DEF Face!Present, CardFields
<1>6. Rows'
  BY <1>1, <1>2, <1>3, <1>4, OwnTyped, Seen DEF Rows, Renewing, Before, Face!Present
<1>7. Marks'
  BY <1>1, <1>2 DEF Marks, Ending, Posting, Before, Face!Present
<1>8. Hands'
  BY <1>1, <1>2, <1>3, <1>5 DEF Hands, Face!At, Face!Tasks, Face!Present
<1>9. Found'
  BY <1>1, <1>2 DEF Found, Before, Face!Present
<1>10. Face!Stops' \subseteq Face!Stops
  BY <1>3 DEF Face!Stops, Face!Kinds, Face!Terminal
<1>11. Orphans' \subseteq Orphans
  BY <1>4, <1>10 DEF Orphans
<1>12. Refused' => Refused
  BY <1>2, <1>4, <1>10 DEF Refused
<1>13. excuses' + throttles' = excuses + throttles + 1
  BY <1>1, <1>2, CardTypes
<1>14. Balanced'
  BY <1>1, <1>11, <1>12, <1>13, BalanceIsPaid
<1> QED BY <1>1, <1>6, <1>7, <1>8, <1>9, <1>14 DEF Accounted

LEMMA RestartBalances == ASSUME Accounted, Face!Restart PROVE Accounted'
<1>1. Face!TypeOK /\ Locked /\ Rows /\ Marks /\ Balanced /\ Drawable' /\ Hands
  BY LossDraws DEF Accounted, Drawable
<1>2. /\ UNCHANGED <<turns, row, screen, throttles>> /\ card' = Face!Absent /\ ~adopted' /\ batch' = Face!Absent
      /\ turn' = [turn EXCEPT !.card = row] /\ at' = [t \in Face!Tasks |-> Face!Free]
      /\ IF Face!Struck THEN excuses' = excuses + 1 ELSE excuses' = excuses
  BY DEF Face!Restart, Face!Excuse
<1>3. turn'.card = row
  BY <1>1, <1>2, CardTypes
<1>4. at'["poller"].pc = "free" /\ at'["ticker"].pc = "free" /\ batch'.op = "none"
  BY <1>2 DEF Face!Free, Face!Tasks, Face!Absent
<1>5. Own' = row
  BY <1>2 DEF Own
<1>6. Rows'
  BY <1>2, <1>3, <1>4 DEF Rows, Renewing
<1>7. Marks' /\ Found'
  BY <1>2 DEF Marks, Found, Face!Present
<1>8. Hands'
  BY <1>2, <1>4 DEF Hands, Face!At, Face!Tasks, Face!Present
<1>9. ~AtRisk' /\ ~Refused'
  BY <1>2, <1>4 DEF AtRisk, HeldBack, Unretired, TakenAway, Outdated, Unrecorded, Sending, Refused, Face!Present
<1>10. Orphans' \subseteq Orphans \cup {Own}
  BY <1>2 DEF Orphans, Face!Stops
<1>11. CASE Face!Struck
  <2>1. excuses' + throttles' = excuses + throttles + 1
    BY <1>1, <1>2, <1>11, CardTypes
  <2>2. Balanced'
    BY <1>1, <1>9, <1>10, <2>1, BalanceIsPaid
  <2> QED BY <1>1, <1>6, <1>7, <1>8, <2>2 DEF Accounted
<1>12. CASE ~Face!Struck
  <2>1. /\ batch = Face!Absent /\ at["poller"].pc = "free" /\ at["ticker"].pc = "free"
        /\ card = Face!Absent \/ ~card.dirty
    BY <1>12 DEF Face!Struck, Face!LockFree, Face!At, Face!Tasks, Face!Present
  <2>2. UNCHANGED <<excuses, throttles>>
    BY <1>2, <1>12
  <2>3. CASE Own \in {0, row}
    <3>1. Orphans' \subseteq Orphans
      BY <1>2, <1>5, <2>3, NoMessageIsZero DEF Orphans, Face!Stops
    <3>2. Balanced'
      BY <1>1, <1>9, <2>2, <3>1, BalanceStands
    <3> QED BY <1>1, <1>6, <1>7, <1>8, <3>2 DEF Accounted
  <2>4. CASE Own \notin {0, row}
    <3>1. Face!Present /\ ~card.dirty /\ ~card.retire
      BY <1>1, <2>1, <2>4 DEF Own, Marks, Face!Present
    <3>2. ~Sending /\ batch.op # "post" /\ ~Ending
      BY <2>1 DEF Sending, Ending, Face!Absent
    <3>3. AtRisk
      BY <2>4, <3>1, <3>2 DEF AtRisk, Unrecorded
    <3>4. Balanced'
      BY <1>1, <1>9, <1>10, <2>2, <3>3, BalanceIsSpent
    <3> QED BY <1>1, <1>6, <1>7, <1>8, <3>4 DEF Accounted
  <2> QED BY <2>3, <2>4
<1> QED BY <1>11, <1>12

LEMMA SyncBalances == ASSUME Accounted, Face!Sync PROVE Accounted'
<1>1. Face!TypeOK /\ Locked /\ Rows /\ Marks /\ Hands /\ Found /\ Balanced /\ Drawable'
  BY SyncDraws DEF Accounted, Drawable
<1>2. /\ UNCHANGED <<turns, row, card, adopted, screen, mishaps, throttles, excuses>>
      /\ turn' = [turn EXCEPT !.card = row] /\ batch' = Face!Absent /\ batch'.op = "none"
      /\ at' = [at EXCEPT !["poller"] = Face!Free]
      /\ at["poller"].pc = "sync"
  BY DEF Face!Sync, Face!At, Face!Absent
<1>3. turn'.phase = turn.phase /\ turn'.card = row
  BY <1>1, <1>2, CardTypes
<1>4. /\ at'["poller"].pc = "free" /\ at'["ticker"] = at["ticker"] /\ at["ticker"].pc = "free"
      /\ batch # Face!Absent /\ adopted
  BY <1>1, <1>2, CardTypes DEF Face!Free, Face!Tasks, Locked, Face!At
<1>5. Own' = Own
  BY <1>2, <1>4 DEF Own
<1>6. Rows'
  BY <1>1, <1>2, <1>4 DEF Rows, Renewing
<1>7. Marks'
  BY <1>1, <1>2, <1>3, <1>4 DEF Marks, Ending, Posting, Before, Face!Present
<1>8. Hands'
  BY <1>1, <1>2, <1>4 DEF Hands, Face!At, Face!Tasks, Face!Present
<1>9. Found'
  BY <1>1, <1>2, <1>3, <1>4 DEF Found, Before, Face!Present
<1>10. Orphans' \subseteq Orphans
  BY <1>2, <1>5 DEF Orphans, Face!Stops
<1>11. AtRisk' => AtRisk
  <2>1. HeldBack' => HeldBack
    BY <1>2 DEF HeldBack, Renewing, Face!Present
  <2>2. Unretired' => Unretired
    BY <1>2, <1>3, <1>4, <1>5 DEF Unretired, Drawing, Sending, Last, Face!Present, Face!Stops
  <2>3. TakenAway' => TakenAway
    BY <1>2, <1>3, <1>4, <1>5 DEF TakenAway, Posting, Before, Sending, Last, Face!Present
  <2>4. Outdated' => Outdated
    BY <1>2, <1>3, <1>4, <1>5 DEF Outdated, Posting, Before, Drawing, Last, Face!Present
  <2>5. Unrecorded' => Unrecorded
    BY <1>2, <1>3, <1>4, <1>5 DEF Unrecorded, Sending, Before, Ending, Face!Present
  <2> QED BY <2>1, <2>2, <2>3, <2>4, <2>5 DEF AtRisk
<1>12. ~Refused'
  BY <1>4 DEF Refused
<1> QED BY <1>1, <1>2, <1>6, <1>7, <1>8, <1>9, <1>10, <1>11, <1>12, BalanceStands DEF Accounted
-----------------------------------------------------------------------------
LEMMA EnterBalances == ASSUME Accounted, Face!Enter PROVE Accounted'
<1>1. Face!TypeOK /\ Locked /\ Spoken /\ Faced /\ Rows /\ Marks /\ Hands /\ Found /\ Balanced /\ Drawable'
  BY EnterDraws DEF Accounted, Drawable
<1>2. /\ UNCHANGED <<turn, turns, row, batch, screen, mishaps, throttles, excuses>> /\ adopted'
      /\ card' = Face!Adopt
      /\ batch # Face!Absent /\ at["poller"].pc = "free" /\ at["ticker"].pc = "free"
  BY DEF Face!Enter, Face!At, Face!LockFree, Face!Tasks
<1>3. /\ turn.phase \in Face!Kinds /\ row \in {0} \cup Face!Messages
      /\ batch.op \in {"post", "edit", "activity"}
      /\ card # Face!Absent => card \in CardFields /\ card.kind \in Face!Kinds
  BY <1>1, <1>2, Seen DEF CardFields
<1>4. \/ card' = card /\ (adopted \/ (row = 0 /\ card = Face!Absent))
      \/ /\ ~adopted /\ card = Face!Absent /\ card' # Face!Absent /\ row # 0
         /\ card'.kind = "queued" /\ card'.id = row /\ card'.dirty /\ ~card'.known
         /\ ~card'.retire /\ card'.shown = "none" /\ ~card'.held
  <2> DEFINE found == [Face!Blank(row) EXCEPT !.known = FALSE]
  <2>1. found \in CardFields /\ found.kind = "queued" /\ found.id = row /\ found.dirty /\ ~found.known
        /\ ~found.retire /\ found.shown = "none" /\ ~found.held
    BY <1>3 DEF Face!Blank, CardFields, Face!Kinds, Face!Terminal
  <2>2. found # Face!Absent
    BY <2>1, ACardIsSomething
  <2>3. card' = card \/ (card' = found /\ ~adopted /\ row # 0)
    BY <1>2 DEF Face!Adopt
  <2>4. ~adopted => card = Face!Absent
    BY <1>1 DEF Rows
  <2>5. card' = card => adopted \/ row = 0
    BY <1>2, <2>2, <2>4 DEF Face!Adopt, Face!Present
  <2> HIDE DEF found
  <2> QED BY <2>1, <2>2, <2>3, <2>4, <2>5
<1>5. PICK pc \in {"supersede", "apply"} : Face!To("poller", pc) /\ (pc = "apply" => ~Face!Supersedes(card'))
  BY DEF Face!Enter
<1>6. at'["poller"].pc = pc /\ at'["ticker"] = at["ticker"]
  BY <1>1, <1>5, Goes DEF Face!Tasks, Steps
<1>7. Own' = Own
  BY <1>1, <1>2, <1>4, <1>6 DEF Own, Rows
<1>8. Before' /\ Before /\ ~Drawing' /\ ~Sending' /\ ~Drawing /\ ~Sending
  BY <1>2, <1>6 DEF Before, Drawing, Sending
<1>9. (Posting' <=> Posting) /\ (Renewing' <=> Renewing) /\ (Ending' <=> Ending) /\ Last' = Last
  BY <1>2, <1>8 DEF Posting, Renewing, Ending, Last
<1>10. Rows'
  BY <1>1, <1>2, <1>4, <1>7, <1>8, <1>9 DEF Rows, Face!Present
<1>11. Marks'
  BY <1>1, <1>2, <1>4, <1>9 DEF Marks, Face!Present, Face!Terminal
<1>12. Hands'
  BY <1>1, <1>2, <1>4, <1>6 DEF Hands, Face!At, Face!Tasks, Face!Present
<1>13. Found'
  BY <1>1, <1>2, <1>4, <1>8 DEF Found, Rows, Face!Present
<1>14. Orphans' \subseteq Orphans
  BY <1>2, <1>7 DEF Orphans, Face!Stops
<1>15. AtRisk' => AtRisk
  <2>1. CASE card' = card
    <3>1. HeldBack' => HeldBack
      BY <1>2, <1>9, <2>1 DEF HeldBack, Face!Present
    <3>2. Unretired' => Unretired
      BY <1>2, <1>7, <1>8, <1>9, <2>1 DEF Unretired, Face!Present, Face!Stops
    <3>3. TakenAway' => TakenAway
      BY <1>2, <1>7, <1>8, <1>9, <2>1 DEF TakenAway, Face!Present
    <3>4. Outdated' => Outdated
      BY <1>2, <1>7, <1>8, <1>9, <2>1 DEF Outdated, Face!Present
    <3>5. Unrecorded' => Unrecorded
      BY <1>2, <1>7, <1>8, <1>9, <2>1 DEF Unrecorded, Face!Present
    <3> QED BY <3>1, <3>2, <3>3, <3>4, <3>5 DEF AtRisk
  <2>2. CASE card' # card
    <3>1. ~HeldBack' /\ ~Unretired'
      BY <1>4, <2>2 DEF HeldBack, Unretired
    <3>2. Own' = row /\ Last' = row
      BY <1>2, <1>4, <1>7, <2>2 DEF Own, Last
    <3>3. ~Outdated' /\ ~Unrecorded'
      BY <1>2, <3>2 DEF Outdated, Unrecorded
    <3>4. ~TakenAway'
      BY <1>1, <1>2, <1>3, <1>4, <1>8, <1>9, <2>2 DEF TakenAway, Rows, Renewing, Posting, Face!Present,
         Face!Terminal
    <3> QED BY <3>1, <3>3, <3>4 DEF AtRisk
  <2> QED BY <2>1, <2>2
<1>16. ~Refused'
  <2> SUFFICES ASSUME Refused' PROVE FALSE
    OBVIOUS
  <2>1. card' # Face!Absent /\ card'.id # 0
    BY <1>2, <1>6, NoMessageIsZero DEF Refused, Own, Face!Stops
  <2> QED BY <1>2, <1>5, <1>6, <2>1 DEF Refused, Face!Supersedes
<1> QED BY <1>1, <1>2, <1>10, <1>11, <1>12, <1>13, <1>14, <1>15, <1>16, BalanceStands DEF Accounted

\* Between the topic's lock and the new card: the old card's message may have gone.
LEMMA Superseding ==
    ASSUME Accounted, UNCHANGED <<turn, turns, row, batch, card, adopted, throttles>>,
           at["poller"].pc = "supersede", Face!To("poller", "apply"), Drawable',
           screen' = screen \/ screen' = [screen EXCEPT ![card.id] = "gone"]
    PROVE  /\ Drawable' /\ Rows' /\ Marks' /\ Hands' /\ Found'
           /\ Orphans' \subseteq Orphans /\ (AtRisk' => AtRisk)
           /\ screen' = [screen EXCEPT ![card.id] = "gone"] => ~Refused'
<1>1. Face!TypeOK /\ Locked /\ Spoken /\ Faced /\ Rows /\ Marks /\ Hands /\ Found /\ Balanced /\ Drawable'
  BY DEF Accounted, Drawable
<1>2. /\ batch.op = "post" /\ card # Face!Absent /\ card.id # 0 /\ card.kind \notin Face!Terminal
      /\ adopted /\ at["ticker"].pc = "free" /\ batch # Face!Absent
  BY <1>1 DEF Locked, Face!Supersedes, Face!At, Face!Tasks
<1>3. /\ card \in CardFields /\ card.id \in Face!Messages
  BY <1>1, <1>2, CardTypes DEF CardFields
<1>4. at'["poller"].pc = "apply" /\ at'["ticker"] = at["ticker"]
  BY <1>1, Goes DEF Face!Tasks, Steps
<1>5. Own' = card.id /\ Own = card.id
  BY <1>2, <1>4 DEF Own
<1>6. \A n \in Face!Messages : screen'[n] = screen[n] \/ (n = card.id /\ screen'[n] = "gone")
  BY <1>1, <1>3, CardTypes
<1>7. Before' /\ Before /\ Posting' /\ Posting /\ Renewing' /\ Renewing
  BY <1>2, <1>4 DEF Before, Posting, Renewing
<1>8. Ending' <=> Ending
  BY <1>7 DEF Ending
<1>9. Rows'
  BY <1>1, <1>2, <1>3, <1>5, <1>6, <1>7, CardTypes DEF Rows, Face!Present
<1>10. Marks'
  BY <1>1, <1>2, <1>4, <1>7, <1>8 DEF Marks, Face!Present
<1>11. Hands'
  BY <1>1, <1>2, <1>3, <1>4, <1>6 DEF Hands, Face!At, Face!Tasks, Face!Present
<1>12. Found'
  BY <1>1, <1>7 DEF Found, Face!Present
<1>13. Face!Stops' \subseteq Face!Stops
  BY <1>6 DEF Face!Stops, Face!Kinds, Face!Terminal
<1>14. Orphans' \subseteq Orphans
  BY <1>5, <1>13 DEF Orphans
<1>15. AtRisk' => AtRisk
  <2>1. HeldBack' => HeldBack
    BY <1>7 DEF HeldBack, Face!Present
  <2>2. Unretired' => Unretired
    BY <1>2 DEF Unretired, Face!Present
  <2>3. ~TakenAway' /\ ~Outdated' /\ ~Unrecorded'
    BY <1>2, <1>7 DEF TakenAway, Outdated, Unrecorded
  <2> QED BY <2>1, <2>2, <2>3 DEF AtRisk
<1>16. screen' = [screen EXCEPT ![card.id] = "gone"] => ~Refused'
  <2>1. screen' = [screen EXCEPT ![card.id] = "gone"] => screen'[card.id] = "gone"
    BY <1>1, <1>3, CardTypes
  <2> QED BY <1>5, <2>1 DEF Refused, Face!Stops, Face!Kinds, Face!Terminal
<1> QED BY <1>1, <1>9, <1>10, <1>11, <1>12, <1>14, <1>15, <1>16

LEMMA SupersedeBalances == ASSUME Accounted, Face!Supersede \/ Face!SupersedeRefused PROVE Accounted'
<1>1. Drawable' /\ Face!TypeOK /\ Balanced
  BY SupersedeDraws DEF Accounted, Drawable
<1>2. /\ UNCHANGED <<turn, turns, row, batch, card, adopted, throttles>>
      /\ at["poller"].pc = "supersede" /\ Face!To("poller", "apply")
      /\ \/ screen' = [screen EXCEPT ![card.id] = "gone"] /\ excuses' = excuses
         \/ screen' = screen /\ excuses' = excuses + 1
  BY DEF Face!Supersede, Face!SupersedeRefused, Face!At, Face!Excuse
<1>3. /\ Rows' /\ Marks' /\ Hands' /\ Found' /\ Orphans' \subseteq Orphans /\ (AtRisk' => AtRisk)
      /\ screen' = [screen EXCEPT ![card.id] = "gone"] => ~Refused'
  BY <1>1, <1>2, Superseding
<1>4. CASE excuses' = excuses + 1
  <2>1. excuses' + throttles' = excuses + throttles + 1
    BY <1>1, <1>2, <1>4, CardTypes
  <2>2. Balanced'
    BY <1>1, <1>3, <2>1, BalanceIsPaid
  <2> QED BY <1>1, <1>3, <2>2 DEF Accounted
<1>5. CASE screen' = [screen EXCEPT ![card.id] = "gone"] /\ excuses' = excuses
  BY <1>1, <1>2, <1>3, <1>5, BalanceStands DEF Accounted
<1> QED BY <1>2, <1>4, <1>5

\* The mark, and the hold, of what _apply makes of the card.
LEMMA AppliedMarks ==
    ASSUME Face!TypeOK, batch # Face!Absent, card # Face!Absent \/ batch.op # "activity"
    PROVE  LET d == Face!Marked(Face!Applied(card)) IN
           /\ card = Face!Absent => d.retire = (batch.kind \in Face!Terminal) /\ ~d.held
           /\ card # Face!Absent =>
                 /\ d.held = card.held
                 /\ batch.op = "post" => d.retire = (batch.kind \in Face!Terminal)
                 /\ batch.op # "post" => d.retire = (card.retire \/ batch.kind \in Face!Terminal)
<1>1. batch.op \in {"post", "edit", "activity"} /\ batch.kind \in Face!Kinds
  BY CardTypes
<1>2. PICK base : base = Face!CardFor(card)
  OBVIOUS
<1>3. /\ base \in CardFields
      /\ card = Face!Absent => base.retire = FALSE /\ base.held = FALSE
      /\ card # Face!Absent => base = card
  BY <1>2, CardTypes, BlankIsACard DEF Face!CardFor, Face!Blank
<1>4. \A c \in CardFields : /\ Face!Marked(c).retire = (c.retire \/ batch.kind \in Face!Terminal)
                            /\ Face!Marked(c).held = c.held
  BY ACardIsSomething, <1>1 DEF Face!Marked, CardFields
<1>5. CASE batch.op = "post"
  <2>1. Face!Applied(card) = [base EXCEPT !.id = 0, !.kind = batch.kind, !.dirty = TRUE, !.known = TRUE, !.retire = FALSE]
    BY <1>2, <1>5 DEF Face!Applied
  <2>2. Face!Applied(card) \in CardFields /\ Face!Applied(card).held = base.held /\ Face!Applied(card).retire = FALSE
    BY <1>1, <1>3, <2>1 DEF CardFields
  <2> QED BY <1>3, <1>4, <1>5, <2>2
<1>6. CASE batch.op = "edit"
  <2>1. Face!Applied(card) = [base EXCEPT !.kind = batch.kind, !.dirty = TRUE, !.known = TRUE]
    BY <1>2, <1>6 DEF Face!Applied
  <2>2. Face!Applied(card) \in CardFields /\ Face!Applied(card).held = base.held /\ Face!Applied(card).retire = base.retire
    BY <1>1, <1>3, <2>1 DEF CardFields
  <2> QED BY <1>3, <1>4, <1>6, <2>2
<1>7. CASE batch.op = "activity"
  <2>1. Face!Applied(card) = [card EXCEPT !.dirty = TRUE] /\ card # Face!Absent /\ card \in CardFields
    BY <1>3, <1>7 DEF Face!Applied
  <2>2. Face!Applied(card) \in CardFields /\ Face!Applied(card).held = card.held /\ Face!Applied(card).retire = card.retire
    BY <2>1 DEF CardFields
  <2> QED BY <1>4, <1>7, <2>1, <2>2
<1> QED BY <1>1, <1>5, <1>6, <1>7

\* The handler at work on the card: what _apply starts from.
Applying ==
    /\ Face!TypeOK /\ Locked /\ Spoken /\ Faced /\ Rows /\ Marks /\ Hands /\ Found /\ Balanced
    /\ at["poller"].pc = "apply" /\ at["ticker"].pc = "free" /\ adopted /\ batch # Face!Absent
    /\ batch.kind = turn.phase /\ batch.op \in {"post", "edit", "activity"}
    /\ turn.phase \in Face!Kinds
    /\ card # Face!Absent => card \in CardFields /\ card.kind \in Face!Kinds /\ card.id \in {0} \cup Face!Messages
    /\ Own = IF card = Face!Absent THEN 0 ELSE card.id

\* What it leaves of the state around the card.
Around ==
    /\ UNCHANGED <<turn, turns, row, batch, adopted, screen, mishaps, throttles, excuses>>
    /\ at'["poller"].pc = (IF card' = Face!Absent THEN "sync" ELSE "flush") /\ at'["ticker"] = at["ticker"]
    /\ Own' = IF card' = Face!Absent THEN 0 ELSE card'.id

LEMMA ApplyIsAround == ASSUME Accounted, Face!Apply PROVE Applying /\ Around /\ Drawable'
<1>1. Face!TypeOK /\ Locked /\ Spoken /\ Faced /\ Rows /\ Marks /\ Hands /\ Found /\ Balanced /\ Drawable'
  BY ApplyDraws DEF Accounted, Drawable
<1>2. /\ UNCHANGED <<turn, turns, row, batch, adopted, screen, mishaps, throttles, excuses>>
      /\ at["poller"].pc = "apply" /\ at["ticker"].pc = "free" /\ adopted /\ batch # Face!Absent
  BY <1>1 DEF Face!Apply, Face!At, Locked
<1>3. at'["poller"].pc = (IF card' = Face!Absent THEN "sync" ELSE "flush") /\ at'["ticker"] = at["ticker"]
  BY <1>1, Goes DEF Face!Apply, Face!Tasks, Steps
<1>4. /\ turn.phase \in Face!Kinds /\ batch.op \in {"post", "edit", "activity"} /\ batch.kind = turn.phase
      /\ card # Face!Absent => card \in CardFields /\ card.kind \in Face!Kinds /\ card.id \in {0} \cup Face!Messages
  BY <1>1, <1>2, Seen DEF CardFields, Spoken
<1>5. /\ Own = (IF card = Face!Absent THEN 0 ELSE card.id)
      /\ Own' = (IF card' = Face!Absent THEN 0 ELSE card'.id)
  BY <1>2, <1>3 DEF Own
<1> QED BY <1>1, <1>2, <1>3, <1>4, <1>5 DEF Applying, Around

LEMMA PostIsApplied == ASSUME Accounted, Face!Apply, batch.op = "post" PROVE Accounted'
<1>1. Applying /\ Around /\ Drawable'
  BY ApplyIsAround
<1>2. card' = Face!Marked(Face!Applied(card))
  BY DEF Face!Apply
<1>3. /\ card' \in CardFields /\ card' # Face!Absent /\ card'.dirty /\ card'.kind = turn.phase /\ card'.known
      /\ card'.id = 0 /\ card'.retire = (turn.phase \in Face!Terminal)
      /\ card'.held => card # Face!Absent /\ card.held
  BY <1>1, <1>2, AppliedIs, AppliedMarks, ACardIsSomething DEF Applying
<1>4. ~Before' /\ Before /\ ~Sending' /\ ~Sending /\ ~Drawing /\ ~Refused'
  BY <1>1, <1>3 DEF Applying, Around, Before, Sending, Drawing, Refused
<1>5. Own' = 0 /\ row' = row /\ Last' = row
  BY <1>1, <1>3 DEF Around, Applying, Last
<1>6. Rows'
  BY <1>1, <1>3, <1>4 DEF Applying, Around, Rows, Renewing
<1>7. Marks'
  BY <1>1, <1>3, <1>4 DEF Applying, Around, Marks, Ending, Face!Terminal
<1>8. Hands' /\ Found'
  BY <1>1, <1>3 DEF Applying, Around, Hands, Found, Face!At, Face!Tasks
<1>9. Orphans' \subseteq Orphans \cup {Own}
  BY <1>1 DEF Orphans, Around, Face!Stops
<1>10. ~TakenAway' /\ ~Unrecorded'
  BY <1>5 DEF TakenAway, Unrecorded
<1>11. AtRisk' => card # Face!Absent /\ card.held /\ row # 0 /\ HeldBack
  <2>1. card'.held /\ row # 0 => card # Face!Absent /\ card.held /\ HeldBack
    BY <1>3, <1>4 DEF HeldBack, Renewing, Face!Present
  <2>2. ~HeldBack'
    BY <1>3, <1>4 DEF HeldBack, Renewing
  <2>3. Unretired' => card'.held /\ row # 0
    BY <1>1, <1>3, <1>5 DEF Applying, Around, Unretired, Drawing
  <2>4. Outdated' => card'.held /\ row # 0
    BY <1>1, <1>3, <1>5 DEF Applying, Around, Outdated, Drawing
  <2> QED BY <1>10, <2>1, <2>2, <2>3, <2>4 DEF AtRisk
<1>12. AtRisk' => AtRisk
  BY <1>11 DEF AtRisk
<1>13. CASE Own \notin Face!Stops
  <2>1. Orphans' \subseteq Orphans
    BY <1>1, <1>13 DEF Orphans, Around, Face!Stops
  <2>2. Balanced'
    BY <1>1, <1>4, <1>12, <2>1, BalanceStands DEF Applying, Around
  <2> QED BY <1>1, <1>6, <1>7, <1>8, <2>2 DEF Accounted
<1>14. CASE Own \in Face!Stops /\ card.kind \notin Face!Terminal
  <2>1. Refused
    BY <1>1, <1>14 DEF Refused, Applying
  <2>2. Balanced'
    BY <1>1, <1>4, <1>9, <1>12, <2>1, BalanceIsSpent DEF Applying, Around
  <2> QED BY <1>1, <1>6, <1>7, <1>8, <2>2 DEF Accounted
<1>15. CASE Own \in Face!Stops /\ card.kind \in Face!Terminal
  <2>1. card # Face!Absent /\ Own # 0 /\ card.retire
    BY <1>1, <1>15, NoMessageIsZero DEF Applying, Face!Stops, Marks, Face!Present
  <2>2. row = 0
    BY <1>1, <1>4, <1>15, <2>1 DEF Applying, Rows, Renewing, Face!Stops, Face!Kinds, Face!Terminal
  <2>3. turn.phase \notin Face!Terminal
    BY <1>1, <1>4, <2>1 DEF Applying, Marks, Ending, Face!Present
  <2>4. AtRisk
    BY <1>4, <1>15, <2>1, <2>3 DEF AtRisk, Unretired, Face!Present, Face!Terminal
  <2>5. ~AtRisk'
    BY <1>11, <2>2
  <2>6. Balanced'
    BY <1>1, <1>4, <1>9, <2>4, <2>5, BalanceIsSpent DEF Applying, Around
  <2> QED BY <1>1, <1>6, <1>7, <1>8, <2>6 DEF Accounted
<1> QED BY <1>13, <1>14, <1>15

LEMMA EditIsApplied == ASSUME Accounted, Face!Apply, batch.op = "edit" PROVE Accounted'
<1>1. Applying /\ Around /\ Drawable'
  BY ApplyIsAround
<1>2. card' = Face!Marked(Face!Applied(card))
  BY DEF Face!Apply
<1>3. /\ card' \in CardFields /\ card' # Face!Absent /\ card'.dirty /\ card'.kind = turn.phase /\ card'.known
      /\ card'.id = (IF card = Face!Absent THEN 0 ELSE card.id)
      /\ card'.shown = (IF card = Face!Absent THEN "none" ELSE card.shown)
      /\ card'.held <=> card # Face!Absent /\ card.held
      /\ card'.retire <=> (card # Face!Absent /\ card.retire) \/ turn.phase \in Face!Terminal
  BY <1>1, <1>2, AppliedIs, AppliedMarks, ACardIsSomething DEF Applying
<1>4. ~Before' /\ Before /\ ~Sending' /\ ~Sending /\ ~Drawing /\ ~Refused' /\ ~Posting /\ ~Posting'
  BY <1>1, <1>3 DEF Applying, Around, Before, Sending, Drawing, Refused, Posting
<1>5. Own' = Own /\ row' = row /\ Last' = row /\ Last = row
  BY <1>1, <1>3 DEF Around, Applying, Last
<1>6. turn.phase # "queued" /\ (turn.phase # "done" /\ card # Face!Absent => row # 0)
  BY <1>1, <1>4 DEF Applying, Rows, Face!Present
<1>7. card # Face!Absent /\ card.retire => turn.phase \in {"done", "waking"} /\ turn.phase \notin Face!Terminal
  BY <1>1, <1>4, <1>6 DEF Applying, Marks, Ending, Face!Present, Face!Terminal
<1>8. Rows'
  BY <1>1, <1>3, <1>4, <1>6 DEF Applying, Around, Rows, Renewing
<1>9. Marks'
  BY <1>1, <1>3, <1>4, <1>7 DEF Applying, Around, Marks, Ending, Face!Terminal
<1>10. Hands' /\ Found'
  BY <1>1, <1>3 DEF Applying, Around, Hands, Found, Face!At, Face!Tasks, Face!Present
<1>11. Orphans' \subseteq Orphans
  BY <1>1, <1>5 DEF Orphans, Around, Face!Stops
<1>12. AtRisk' => AtRisk
  <2>1. HeldBack' => HeldBack
    BY <1>1, <1>3, <1>4 DEF HeldBack, Renewing, Face!Present
  <2>2. Unretired' => AtRisk
    <3> SUFFICES ASSUME Unretired' PROVE AtRisk
      OBVIOUS
    <3>1. CASE card # Face!Absent /\ card.retire
      <4>1. card.dirty /\ row # 0
        BY <1>1, <1>6, <1>7, <3>1 DEF Applying, Marks, Face!Present, Face!Terminal
      <4>2. turn.phase # "dead"
        BY <1>7, <3>1
      <4> QED BY <1>4, <1>5, <3>1, <4>1, <4>2 DEF AtRisk, Unretired, Face!Present
    <3>2. CASE ~(card # Face!Absent /\ card.retire)
      <4>1. turn.phase = "done" /\ card'.held /\ (Own # 0 \/ row # 0)
        BY <1>1, <1>3, <1>5, <3>2 DEF Applying, Around, Unretired, Drawing, Face!Terminal
      <4> QED BY <1>1, <1>3, <1>4, <4>1 DEF Applying, AtRisk, HeldBack, Renewing, Face!Present
    <3> QED BY <3>1, <3>2
  <2>3. TakenAway' => TakenAway
    BY <1>1, <1>3, <1>4, <1>5, <1>6 DEF Applying, Around, TakenAway, Face!Present
  <2>4. ~Outdated'
    BY <1>1, <1>6 DEF Around, Outdated
  <2>5. Unrecorded' => Unrecorded
    BY <1>1, <1>3, <1>4, <1>5 DEF Applying, Around, Unrecorded, Ending, Face!Present
  <2> QED BY <2>1, <2>2, <2>3, <2>4, <2>5 DEF AtRisk
<1>13. Balanced'
  BY <1>1, <1>4, <1>11, <1>12, BalanceStands DEF Applying, Around
<1> QED BY <1>1, <1>8, <1>9, <1>10, <1>13 DEF Accounted

LEMMA ActivityIsApplied == ASSUME Accounted, Face!Apply, batch.op = "activity" PROVE Accounted'
<1>1. Applying /\ Around /\ Drawable'
  BY ApplyIsAround
<1>2. card' = Face!Marked(Face!Applied(card))
  BY DEF Face!Apply
<1>3. turn.phase \notin Face!Terminal
  BY <1>1 DEF Applying, Rows
<1>4. /\ card = Face!Absent => card' = Face!Absent
      /\ card # Face!Absent =>
            /\ card' \in CardFields /\ card' # Face!Absent /\ card'.dirty /\ card'.kind = card.kind
            /\ card'.known = card.known /\ card'.id = card.id /\ card'.shown = card.shown
            /\ card'.held = card.held /\ (card'.retire <=> card.retire)
  BY <1>1, <1>2, <1>3, AppliedIs, AppliedMarks, ACardIsSomething DEF Applying
<1>5. ~Before' /\ Before /\ ~Sending' /\ ~Sending /\ ~Drawing /\ ~Refused' /\ ~Posting /\ ~Posting'
      /\ ~Ending /\ ~Ending' /\ ~Renewing /\ ~Renewing'
  BY <1>1, <1>3 DEF Applying, Around, Before, Sending, Drawing, Refused, Posting, Ending, Renewing
<1>6. Own' = Own /\ row' = row /\ Last' = row /\ Last = row
  BY <1>1, <1>4 DEF Around, Applying, Last
<1>7. Rows'
  BY <1>1, <1>5 DEF Applying, Around, Rows
<1>8. Marks'
  BY <1>1, <1>4, <1>5 DEF Applying, Around, Marks, Face!Present
<1>9. Hands'
  BY <1>1, <1>4 DEF Applying, Around, Hands, Face!At, Face!Tasks, Face!Present
<1>10. Found'
  BY <1>1, <1>4 DEF Applying, Around, Found, Face!Present
<1>11. Orphans' \subseteq Orphans
  BY <1>1, <1>6 DEF Orphans, Around, Face!Stops
<1>12. AtRisk' => AtRisk
  <2>1. HeldBack' => HeldBack
    BY <1>4, <1>5 DEF HeldBack, Face!Present
  <2>2. Unretired' => Unretired
    BY <1>1, <1>4, <1>5, <1>6 DEF Applying, Around, Unretired, Marks, Face!Present, Face!Stops
  <2>3. TakenAway' => TakenAway
    BY <1>1, <1>4, <1>5, <1>6 DEF Applying, Around, TakenAway, Face!Present
  <2>4. Outdated' => Outdated
    <3> SUFFICES ASSUME Outdated' PROVE Outdated
      OBVIOUS
    <3>1. card # Face!Absent /\ turn.phase = "queued" /\ row \notin {0, Own}
      BY <1>1, <1>4, <1>6 DEF Around, Outdated, Face!Present
    <3>2. card.dirty \/ Own # 0
      BY <1>1, <1>4, <3>1 DEF Applying, Around, Outdated, Drawing, Marks, Face!Present
    <3> QED BY <1>1, <1>5, <1>6, <3>1, <3>2 DEF Applying, Outdated, Face!Present
  <2>5. Unrecorded' => Unrecorded
    BY <1>4, <1>5, <1>6 DEF Unrecorded, Face!Present
  <2> QED BY <2>1, <2>2, <2>3, <2>4, <2>5 DEF AtRisk
<1>13. Balanced'
  BY <1>1, <1>5, <1>11, <1>12, BalanceStands DEF Applying, Around
<1> QED BY <1>1, <1>7, <1>8, <1>9, <1>10, <1>13 DEF Accounted

LEMMA ApplyBalances == ASSUME Accounted, Face!Apply PROVE Accounted'
<1>1. batch.op \in {"post", "edit", "activity"}
  BY ApplyIsAround DEF Applying
<1> QED BY <1>1, PostIsApplied, EditIsApplied, ActivityIsApplied

-----------------------------------------------------------------------------
(* The machine's steps, while the poller is free.                           *)
Stepped(phase, id, saved) ==
    /\ Face!TypeOK /\ Locked /\ Faced /\ Rows /\ Marks /\ Hands /\ Found /\ Balanced
    /\ batch = Face!Absent /\ batch.op = "none" /\ at["poller"].pc = "free"
    /\ UNCHANGED <<card, adopted, at, screen, throttles>>
    /\ turn'.phase = phase /\ turn'.card = saved /\ row' = saved
    /\ batch' # Face!Absent /\ batch'.op = (IF id = 0 THEN "post" ELSE "edit")
    /\ Before' /\ Before /\ ~Drawing' /\ ~Drawing /\ (Sending' <=> Sending) /\ ~Refused' /\ ~Posting
    /\ Last' = saved /\ Last = turn.card
    /\ IF adopted THEN Own' = Own
       ELSE card = Face!Absent /\ row = turn.card /\ Own = row /\ Own' = saved /\ ~Sending
    /\ Own \in {0} \cup Face!Messages /\ turn.phase \in Face!Kinds

LEMMA StepsAre ==
    ASSUME Accounted, NEW phase \in Face!Kinds, NEW id, NEW saved, Face!Step(phase, id, saved)
    PROVE  Stepped(phase, id, saved)
<1>1. Face!TypeOK /\ Locked /\ Faced /\ Rows /\ Marks /\ Hands /\ Found /\ Balanced
  BY DEF Accounted, Drawable
<1>2. /\ batch = Face!Absent /\ batch.op = "none" /\ at["poller"].pc = "free"
      /\ UNCHANGED <<card, adopted, at, screen, throttles>>
      /\ turn' = [phase |-> phase, card |-> saved] /\ row' = saved /\ batch' = Face!Say(phase, id)
  BY DEF Face!Step, Face!At, Face!Absent
<1>3. batch' \in [op : {"post", "edit", "activity"}, kind : Face!Kinds] /\ batch'.op = (IF id = 0 THEN "post" ELSE "edit")
  BY <1>2 DEF Face!Say
<1>4. batch' # Face!Absent /\ turn'.phase = phase /\ turn'.card = saved
  BY <1>2, <1>3, ABatchIsSomething
<1>5. /\ Before' /\ Before /\ ~Drawing' /\ ~Drawing /\ (Sending' <=> Sending) /\ ~Refused' /\ ~Posting
  BY <1>2 DEF Before, Drawing, Sending, Refused, Posting
<1>6. Last' = saved /\ Last = turn.card
  BY <1>2, <1>4 DEF Last
<1>7. IF adopted THEN Own' = Own
      ELSE card = Face!Absent /\ row = turn.card /\ Own = row /\ Own' = saved /\ ~Sending
  BY <1>1, <1>2 DEF Own, Rows, Locked, Sending, Writing, Face!Present, Face!Tasks
<1> QED BY <1>1, <1>2, <1>3, <1>4, <1>5, <1>6, <1>7, OwnTyped, Seen DEF Stepped

\* A step whose context forgets the last process's card is paid for.
LEMMA StepsBalance ==
    ASSUME Accounted, ForgetExcused, NEW phase \in Face!Kinds, NEW id, NEW saved \in {0, turn.card},
           Face!Step(phase, id, saved), Stepped(phase, id, saved), Drawable',
           Rows', Marks', Found', adopted => (AtRisk' => AtRisk)
    PROVE  Accounted'
<1>1. Hands'
  BY DEF Stepped, Hands, Face!At, Face!Tasks, Face!Present
<1>2. ~adopted => ~AtRisk'
  BY DEF Stepped, AtRisk, HeldBack, Unretired, TakenAway, Outdated, Unrecorded, Face!Present
<1>3. Orphans' \subseteq Orphans \cup {Own}
  BY DEF Stepped, Orphans, Face!Stops
<1>4. CASE Face!Forgets(saved)
  <2>1. excuses' + throttles' = excuses + throttles + 1
    BY <1>4, CardTypes DEF Face!Step, Face!Excuse, Stepped
  <2>2. Balanced'
    BY <1>2, <1>3, <1>4, <2>1, BalanceIsPaid DEF Stepped, Face!Forgets
  <2> QED BY <1>1, <2>2 DEF Accounted
<1>5. CASE ~Face!Forgets(saved)
  <2>1. UNCHANGED <<excuses, throttles>>
    BY <1>5 DEF Face!Step, Stepped
  <2>2. Own' = Own
    BY <1>5 DEF Stepped, Face!Forgets
  <2>3. Orphans' \subseteq Orphans
    BY <2>2 DEF Stepped, Orphans, Face!Stops
  <2>4. Balanced'
    BY <1>2, <2>1, <2>3, BalanceStands DEF Stepped
  <2> QED BY <1>1, <2>4 DEF Accounted
<1> QED BY <1>4, <1>5

LEMMA WakeBalances == ASSUME Accounted, ForgetExcused, Face!Wake PROVE Accounted'
<1>1. turn.phase = "done" /\ Face!Step("waking", turn.card, turn.card) /\ "waking" \in Face!Kinds /\ Drawable'
  BY StepsDraw DEF Accounted, Face!Wake, Face!Kinds
<1>2. Stepped("waking", turn.card, turn.card)
  BY <1>1, StepsAre
<1>3. Rows'
  BY <1>1, <1>2 DEF Stepped, Rows, Renewing, Face!Terminal, Face!Present
<1>4. Marks'
  BY <1>1, <1>2 DEF Stepped, Marks, Ending, Posting, Face!Terminal, Face!Present
<1>5. Found'
  BY <1>1, <1>2 DEF Stepped, Found, Face!Present
<1>6. ASSUME adopted PROVE AtRisk' => AtRisk
  <2>1. HeldBack' => HeldBack
    BY <1>1, <1>2 DEF Stepped, HeldBack, Renewing, Face!Present
  <2>2. Unretired' => Unretired
    BY <1>1, <1>2, <1>6 DEF Stepped, Unretired, Face!Present, Face!Stops
  <2>3. TakenAway' => TakenAway
    BY <1>1, <1>2, <1>6 DEF Stepped, TakenAway, Face!Present
  <2>4. ~Outdated'
    BY <1>2 DEF Stepped, Outdated
  <2>5. ~Unrecorded'
    <3> SUFFICES ASSUME Unrecorded' PROVE FALSE
      OBVIOUS
    <3>1. Face!Present /\ ~card.retire /\ Own \notin {0, turn.card} /\ ~Sending
      BY <1>2, <1>6 DEF Stepped, Unrecorded, Face!Present
    <3>2. card.known
      BY <1>2, <1>6, <3>1 DEF Stepped, Found, Own, Sending, Face!Present
    <3>3. card.kind = "done"
      BY <1>1, <1>2, <3>1, <3>2 DEF Stepped, Faced, Heard
    <3> QED BY <1>2, <3>1, <3>3 DEF Stepped, Marks, Face!Terminal
  <2> QED BY <2>1, <2>2, <2>3, <2>4, <2>5 DEF AtRisk
<1> QED BY <1>1, <1>2, <1>3, <1>4, <1>5, <1>6, StepsBalance

LEMMA PromptBalances == ASSUME Accounted, ForgetExcused, Face!Prompt PROVE Accounted'
<1>1. turn.phase \in {"done", "waking"} /\ Face!Step("queued", 0, 0) /\ "queued" \in Face!Kinds /\ Drawable'
  BY StepsDraw DEF Accounted, Face!Prompt, Face!Kinds
<1>2. Stepped("queued", 0, 0)
  BY <1>1, StepsAre
<1>3. Rows'
  BY <1>1, <1>2 DEF Stepped, Rows, Renewing, Face!Terminal, Face!Present
<1>4. Marks'
  BY <1>1, <1>2 DEF Stepped, Marks, Ending, Posting, Face!Terminal, Face!Present
<1>5. Found'
  BY <1>1, <1>2 DEF Stepped, Found, Face!Present
<1>6. ASSUME adopted PROVE AtRisk' => AtRisk
  <2>1. HeldBack' => HeldBack
    BY <1>1, <1>2 DEF Stepped, HeldBack, Face!Present
  <2>2. Unretired' => Unretired
    BY <1>1, <1>2, <1>6 DEF Stepped, Unretired, Face!Present, Face!Stops
  <2>3. ~TakenAway' /\ ~Outdated' /\ ~Unrecorded'
    BY <1>2 DEF Stepped, TakenAway, Outdated, Unrecorded, Posting
  <2> QED BY <2>1, <2>2, <2>3 DEF AtRisk
<1> QED BY <1>1, <1>2, <1>3, <1>4, <1>5, <1>6, StepsBalance

LEMMA WitnessBalances == ASSUME Accounted, ForgetExcused, Face!Witness PROVE Accounted'
<1>1. turn.phase = "queued" /\ Face!Step("working", turn.card, turn.card) /\ "working" \in Face!Kinds /\ Drawable'
  BY StepsDraw DEF Accounted, Face!Witness, Face!Kinds
<1>2. Stepped("working", turn.card, turn.card)
  BY <1>1, StepsAre
<1>3. Face!Present => ~card.retire
  BY <1>1, <1>2 DEF Stepped, Marks
<1>4. Rows'
  BY <1>1, <1>2 DEF Stepped, Rows, Renewing, Face!Terminal, Face!Present
<1>5. Marks'
  BY <1>1, <1>2, <1>3 DEF Stepped, Marks, Ending, Face!Terminal, Face!Present
<1>6. Found'
  BY <1>1, <1>2 DEF Stepped, Found, Face!Present
<1>7. ASSUME adopted PROVE AtRisk' => AtRisk
  <2>1. HeldBack' => HeldBack
    BY <1>1, <1>2 DEF Stepped, HeldBack, Renewing, Face!Present
  <2>2. ~Unretired' /\ ~Outdated'
    BY <1>2, <1>3 DEF Stepped, Unretired, Outdated, Face!Present
  <2>3. TakenAway' => TakenAway
    BY <1>2, <1>7 DEF Stepped, TakenAway, Face!Present
  <2>4. Unrecorded' => Outdated
    BY <1>1, <1>2, <1>7 DEF Stepped, Unrecorded, Outdated, Face!Present
  <2> QED BY <2>1, <2>2, <2>3, <2>4 DEF AtRisk
<1> QED BY <1>1, <1>2, <1>4, <1>5, <1>6, <1>7, StepsBalance

LEMMA ConcludeBalances == ASSUME Accounted, ForgetExcused, Face!Conclude PROVE Accounted'
<1>1. turn.phase = "working" /\ Face!Step("done", turn.card, 0) /\ "done" \in Face!Kinds /\ Drawable'
  BY StepsDraw DEF Accounted, Face!Conclude, Face!Kinds, Face!Terminal
<1>2. Stepped("done", turn.card, 0)
  BY <1>1, StepsAre
<1>3. Face!Present => ~card.retire
  BY <1>1, <1>2 DEF Stepped, Marks
<1>4. Rows'
  BY <1>1, <1>2 DEF Stepped, Rows, Renewing, Face!Terminal, Face!Present
<1>5. Marks'
  BY <1>1, <1>2, <1>3 DEF Stepped, Marks, Ending, Face!Terminal, Face!Present
<1>6. Found'
  BY <1>1, <1>2 DEF Stepped, Found, Face!Present
<1>7. ASSUME adopted PROVE AtRisk' => AtRisk
  <2>1. HeldBack' => HeldBack
    BY <1>1, <1>2 DEF Stepped, HeldBack, Face!Present
  <2>2. ~Unretired' /\ ~Outdated' /\ ~Unrecorded'
    BY <1>2, <1>3 DEF Stepped, Unretired, Outdated, Unrecorded, Ending, Face!Present, Face!Terminal
  <2>3. TakenAway' => TakenAway
    BY <1>2, <1>7 DEF Stepped, TakenAway, Face!Present
  <2> QED BY <2>1, <2>2, <2>3 DEF AtRisk
<1> QED BY <1>1, <1>2, <1>4, <1>5, <1>6, <1>7, StepsBalance

LEMMA DieBalances == ASSUME Accounted, ForgetExcused, Face!Die PROVE Accounted'
<1>1. turn.phase \in {"queued", "working"} /\ Face!Step("dead", turn.card, turn.card) /\ "dead" \in Face!Kinds /\ Drawable'
  BY StepsDraw DEF Accounted, Face!Die, Face!Kinds, Face!Terminal
<1>2. Stepped("dead", turn.card, turn.card)
  BY <1>1, StepsAre
<1>3. Face!Present => ~card.retire
  BY <1>1, <1>2 DEF Stepped, Marks
<1>4. Rows'
  BY <1>1, <1>2 DEF Stepped, Rows, Renewing, Face!Terminal, Face!Present
<1>5. Marks'
  BY <1>1, <1>2, <1>3 DEF Stepped, Marks, Ending, Face!Terminal, Face!Present
<1>6. Found'
  BY <1>1, <1>2 DEF Stepped, Found, Face!Present
<1>7. ASSUME adopted PROVE AtRisk' => AtRisk
  <2>1. HeldBack' => HeldBack
    BY <1>1, <1>2 DEF Stepped, HeldBack, Renewing, Face!Present
  <2>2. ~Unretired' /\ ~Outdated' /\ ~Unrecorded'
    BY <1>2, <1>3 DEF Stepped, Unretired, Outdated, Unrecorded, Ending, Face!Present, Face!Terminal
  <2>3. TakenAway' => TakenAway
    BY <1>2, <1>7 DEF Stepped, TakenAway, Face!Present
  <2> QED BY <2>1, <2>2, <2>3 DEF AtRisk
<1> QED BY <1>1, <1>2, <1>4, <1>5, <1>6, <1>7, StepsBalance

LEMMA PollBalances == ASSUME Accounted, ForgetExcused, Face!Poll PROVE Accounted'
<1>1. Face!TypeOK /\ Locked /\ Rows /\ Marks /\ Hands /\ Found /\ Balanced /\ Drawable' /\ turn.phase \in Face!Kinds
  BY PollDraws, Seen DEF Accounted, Drawable
<1>2. /\ batch = Face!Absent /\ batch.op = "none" /\ at["poller"].pc = "free" /\ turn.phase \notin Face!Terminal
      /\ UNCHANGED <<turn, turns, card, adopted, at, screen, mishaps, throttles>>
      /\ row' = turn.card
      /\ IF row \notin {0, turn.card} THEN excuses' = excuses + 1 ELSE excuses' = excuses
  BY DEF Face!Poll, Face!At, Face!Absent, Face!Excuse
<1>3. batch'.op \in {"none", "activity"} /\ (batch' = Face!Absent <=> batch'.op = "none")
  <2>1. [op |-> "activity", kind |-> turn.phase].op = "activity" /\ Face!Absent.op = "none"
    BY DEF Face!Absent
  <2> QED BY <2>1 DEF Face!Poll
<1>4. ~adopted => row = turn.card /\ card = Face!Absent
  BY <1>1 DEF Rows
<1>5. Own' = Own
  BY <1>2, <1>4 DEF Own
<1>6. Last' = turn.card /\ Last = turn.card
  BY <1>2 DEF Last
<1>7. /\ ~Posting /\ ~Posting' /\ ~Renewing /\ ~Renewing' /\ ~Ending /\ ~Ending' /\ Before /\ Before'
      /\ ~Drawing /\ ~Drawing' /\ (Sending' <=> Sending) /\ ~Refused'
  BY <1>2, <1>3 DEF Posting, Renewing, Ending, Before, Drawing, Sending, Refused
<1>8. Rows'
  BY <1>1, <1>2, <1>3, <1>4, <1>7 DEF Rows
<1>9. Marks'
  BY <1>1, <1>2, <1>7 DEF Marks, Face!Present
<1>10. Hands'
  BY <1>1, <1>2 DEF Hands, Face!At, Face!Tasks, Face!Present
<1>11. Found'
  BY <1>1, <1>2, <1>3, <1>7 DEF Found, Face!Present
<1>12. Orphans' \subseteq Orphans
  BY <1>2, <1>5 DEF Orphans, Face!Stops
<1>13. CASE row \notin {0, turn.card}
  <2>1. excuses' + throttles' = excuses + throttles + 1
    BY <1>1, <1>2, <1>13, CardTypes
  <2>2. Balanced'
    BY <1>1, <1>7, <1>12, <2>1, BalanceIsPaid
  <2> QED BY <1>1, <1>8, <1>9, <1>10, <1>11, <2>2 DEF Accounted
<1>14. CASE row \in {0, turn.card}
  <2>1. HeldBack' => HeldBack
    BY <1>2, <1>7 DEF HeldBack, Face!Present
  <2>2. Unretired' => Unretired
    BY <1>2, <1>5, <1>6, <1>7 DEF Unretired, Face!Present, Face!Stops
  <2>3. TakenAway' => TakenAway
    BY <1>2, <1>5, <1>6, <1>7 DEF TakenAway, Face!Present
  <2>4. Outdated' => Outdated
    BY <1>2, <1>5, <1>6, <1>7 DEF Outdated, Face!Present
  <2>5. Unrecorded' => Unrecorded
    BY <1>2, <1>5, <1>7, <1>14 DEF Unrecorded, Face!Present
  <2>6. AtRisk' => AtRisk
    BY <2>1, <2>2, <2>3, <2>4, <2>5 DEF AtRisk
  <2>7. Balanced'
    BY <1>1, <1>2, <1>7, <1>12, <1>14, <2>6, BalanceStands
  <2> QED BY <1>1, <1>8, <1>9, <1>10, <1>11, <2>7 DEF Accounted
<1> QED BY <1>13, <1>14

-----------------------------------------------------------------------------
LEMMA AccountedInit == Face!Init => Accounted
<1> SUFFICES ASSUME Face!Init PROVE Accounted
  OBVIOUS
<1>1. Drawable
  BY DrawableInit
<1>2. /\ turn.phase = "done" /\ turn.card = 0 /\ row = 0 /\ batch = Face!Absent /\ batch.op = "none"
      /\ card = Face!Absent /\ ~adopted
      /\ at["poller"].pc = "free" /\ at["ticker"].pc = "free" /\ excuses = 0 /\ throttles = 0
      /\ \A m \in Face!Messages : screen[m] = "none"
  BY DEF Face!Init, Face!Absent, Face!Free, Face!Tasks
<1>3. Rows /\ Marks /\ Hands /\ Found
  BY <1>2 DEF Rows, Renewing, Marks, Hands, Found, Face!Present, Face!At, Face!Tasks
<1>4. ~AtRisk /\ ~Refused
  BY <1>2 DEF AtRisk, HeldBack, Unretired, TakenAway, Outdated, Unrecorded, Sending, Refused, Face!Present
<1>5. Orphans = {}
  BY <1>2 DEF Orphans, Face!Stops, Face!Kinds, Face!Terminal
<1>6. Cardinality(Orphans) = 0
  BY <1>5, FS_EmptySet
<1>7. Balanced
  BY <1>2, <1>4, <1>6 DEF Balanced, Owed
<1> QED BY <1>1, <1>3, <1>7 DEF Accounted

LEMMA AccountedStep == ForgetExcused /\ Accounted /\ [Face!Next]_(Face!vars) => Accounted'
<1> SUFFICES ASSUME ForgetExcused, Accounted, [Face!Next]_(Face!vars) PROVE Accounted'
  OBVIOUS
<1>1. CASE Face!Machine
  BY <1>1, WakeBalances, PromptBalances, WitnessBalances, ConcludeBalances, DieBalances,
     PollBalances DEF Face!Machine
<1>2. ASSUME NEW t \in Face!Tasks, Face!Flush(t) PROVE Accounted'
  BY <1>2, SkipBalances, PostBalances, PostedBalances, PersistBalances, EditBalances,
     RetireBalances DEF Face!Flush
<1>3. CASE Face!Handle \/ Face!Ticker \/ Face!Calm
  BY <1>2, <1>3, EnterBalances, SupersedeBalances, ApplyBalances, SyncBalances, TickBalances, CalmBalances
     DEF Face!Handle, Face!Ticker, Face!Tasks
<1>4. CASE Face!Trouble
  BY <1>4, SupersedeBalances, ThrottledBalances, FailedBalances, RestartBalances,
     DeletedBalances DEF Face!Trouble
<1>5. CASE UNCHANGED Face!vars
  <2>1. Drawable'
    BY <1>5, DrawableStep DEF Accounted
  <2>2. /\ UNCHANGED <<turn, turns, row, batch, card, adopted, at, screen, mishaps, throttles, excuses>>
    BY <1>5 DEF Face!vars
  <2>3. Own' = Own
    BY <2>2 DEF Own
  <2>4. Rows' /\ Marks' /\ Hands' /\ Found'
    BY <2>2, <2>3 DEF Accounted, Rows, Marks, Hands, Found, Renewing, Ending, Posting, Before, Face!Present,
       Face!At
  <2>5. Orphans' \subseteq Orphans
    BY <2>2, <2>3 DEF Orphans, Face!Stops
  <2>6. AtRisk' => AtRisk
    BY <2>2, <2>3 DEF AtRisk, HeldBack, Unretired, TakenAway, Outdated, Unrecorded, Renewing, Ending, Posting,
       Before,
       Drawing, Sending, Last, Face!Present, Face!Stops
  <2>7. Refused' => Refused
    BY <2>2, <2>3 DEF Refused, Face!Stops
  <2> QED BY <2>1, <2>2, <2>4, <2>5, <2>6, <2>7, BalanceStands DEF Accounted, Drawable
<1> QED BY <1>1, <1>3, <1>4, <1>5 DEF Face!Next

LEMMA BalanceIsOneStop == Accounted => OneStopButton
<1> SUFFICES ASSUME Accounted PROVE OneStopButton
  OBVIOUS
<1>1. Face!TypeOK /\ Balanced
  BY DEF Accounted, Drawable
<1>2. Face!Stops \subseteq Orphans \cup {Own}
  BY DEF Orphans
<1>3. Cardinality(Face!Stops) <= Cardinality(Orphans) + 1 /\ Cardinality(Face!Stops) \in Nat
  BY <1>2, OneMore, OrphansCount
<1>4. Owed \in Nat /\ excuses \in Nat /\ throttles \in Nat
  BY <1>1, CardTypes DEF Owed
<1>5. Cardinality(Face!Stops) <= 1 + excuses + throttles
  BY <1>1, <1>3, <1>4, OrphansCount DEF Balanced
<1>6. Face!Cardinality(Face!Stops) = Cardinality(Face!Stops)
  BY DEF Face!Cardinality, Cardinality
<1> QED BY <1>1, <1>5, <1>6 DEF OneStopButton, Face!OneStopPerTopic

\* One topic, one Stop: of the messages that still carry one, all but the card's own are
\* paid for by a call that failed, a 429, or a death while the card was being written;
\* and what may yet be left behind is paid for before it is (_apply, _supersede, _flush,
\* _maybe_retire, _adopt_once).
THEOREM OneStopAtATime ==
    ASSUME ForgetExcused PROVE SideBySide => []OneStopButton
<1>1. Accounted /\ [Face!Next]_(Face!vars) => Accounted'
  BY AccountedStep
<1>2. Face!Spec => []Accounted
  BY <1>1, AccountedInit, PTL DEF Face!Spec
<1> QED BY <1>2, CardSteps, BalanceIsOneStop, PTL
=============================================================================
