---------------------------- MODULE Connections ----------------------------
(***************************************************************************)
(* Connected accounts and their credentials: clipforge/publish/accounts.py *)
(* (AccountManager) and refresh.py (TokenRefresher) over the token store   *)
(* of store/durable.py, with the predicates and the reply parser of        *)
(* oauth.py.                                                               *)
(*                                                                         *)
(* Threads of several processes share the rows of the store, and those of  *)
(* one process its refresh locks and its unfinished authorisations.  Every *)
(* read and write of the store is a transaction, every request to a        *)
(* platform a step; anything may happen in between.                        *)
(*                                                                         *)
(* An authorisation is what a creator consented to once; its tokens come   *)
(* in generations, and a renewal may or may not issue another and retire   *)
(* the last.  What the platform honours is `grants`.  Scopes, sealing and  *)
(* the client's own credentials, taken to be configured, are left out.     *)
(***************************************************************************)
EXTENDS Integers, FiniteSets

CONSTANTS
    Accounts,
    Platforms,    \* those in use
    Threads,
    Processes,
    ProcessOf,    \* thread -> its process
    Nobody,       \* no thread
    Skew,         \* REFRESH_SKEW_S
    AccessTtl,    \* platform -> life of an access token
    GraceOf,      \* platform -> refresh_grace_days
    PendingTtl,   \* PENDING_TTL
    Duties,       \* bound: who is asked to do what, one of which holds throughout
    MaxAuths,     \* bound on authorisations ever begun
    MaxGens,      \* bound on the refresh tokens of one
    MaxClock,     \* bound on time
    MaxFaults     \* bound on creators' withdrawals, replies and processes lost

ASSUME NamesAssumption ==
    /\ Nobody \notin Threads
    /\ Accounts # {} /\ Processes # {}
    /\ ProcessOf \in [Threads -> Processes]

ASSUME TimesAssumption ==
    /\ Skew \in Nat /\ PendingTtl \in Nat
    /\ AccessTtl \in [Platforms -> Nat] /\ GraceOf \in [Platforms -> Nat]
    /\ \A p \in Platforms : AccessTtl[p] > Skew
    /\ \A d \in Duties : d \in [Threads -> SUBSET {"connect", "refresh", "disconnect"}]
    /\ MaxAuths \in Nat /\ MaxGens \in Nat \ {0} /\ MaxClock \in Nat
    /\ MaxFaults \in Nat

VARIABLES
    duty,      \* thread -> the calls it is asked to make
    platform,  \* account -> its platform, for good
    clock,
    stored,    \* account -> the credentials on its row
    pending,   \* authorisation -> who holds its state and verifier
    begun,     \* authorisations begun; the next state is a new one
    lock,      \* process -> account -> who holds its refresh lock
    call,      \* thread -> what it is doing
    grants,    \* authorisation -> what the platform honours of it
    faults,
    redeemed,  \* authorisation -> exchanges asked for
    hurt       \* authorisations ended, or renewed to nobody: not in the code

vars == <<duty, platform, clock, stored, pending, begun, lock, call, grants, faults,
          redeemed, hurt>>

Auths == 1..MaxAuths

\* A TokenSet: whose authorisation, which refresh token (0: none), when the
\* access token and when the refresh token stops being usable.
TokenSets == [auth : 0..MaxAuths, gen : 0..MaxGens, expires : Nat, until : Nat]
Only(s) == [auth |-> s, gen |-> 0, expires |-> 0, until |-> 0]
NoTokens == Only(0)

Stored(a) == stored[a].auth # 0

NeedsRefresh(t, now) == now >= t.expires - Skew
CanRefresh(t, now) == t.gen # 0 /\ now < t.until

PendingConnections == [held : BOOLEAN, process : Processes, account : Accounts, created : Nat]
NotPending == [held |-> FALSE, process |-> CHOOSE r \in Processes : TRUE,
               account |-> CHOOSE a \in Accounts : TRUE, created |-> 0]

Steps == {"idle", "exchanging", "connected", "waiting", "sending", "renewed",
          "reauth", "revoking", "forgetting"}

Calls == [step : Steps, account : Accounts, now : Nat, tokens : TokenSets, reply : 0..MaxGens]

Doing(s, a, now, t) == [step |-> s, account |-> a, now |-> now, tokens |-> t, reply |-> 0]
Idle == Doing("idle", CHOOSE a \in Accounts : TRUE, 0, NoTokens)

TypeOK ==
    /\ duty \in Duties
    /\ platform \in [Accounts -> Platforms]
    /\ clock \in 0..MaxClock
    /\ stored \in [Accounts -> TokenSets]
    /\ pending \in [Auths -> PendingConnections]
    /\ begun \in 0..MaxAuths
    /\ lock \in [Processes -> [Accounts -> Threads \union {Nobody}]]
    /\ call \in [Threads -> Calls]
    /\ grants \in [Auths -> [account : Accounts, honoured : SUBSET (1..MaxGens),
                             last : 0..MaxGens, ends : Nat]]
    /\ faults \in 0..MaxFaults
    /\ redeemed \in [Auths -> 0..2]
    /\ hurt \subseteq Auths

At(c, s) == call[c].step = s
Asked(c, d) == At(c, "idle") /\ d \in duty[c]
Return(c) == call' = [call EXCEPT ![c] = Idle]
Goto(c, s) == call' = [call EXCEPT ![c].step = s]

manager == <<pending, begun>>
platforms == <<grants, redeemed, hurt>>
given == <<duty, platform, clock>>
rest == <<duty, platform, clock, faults>>

Fault == faults < MaxFaults /\ faults' = faults + 1

-----------------------------------------------------------------------------
(* AccountManager.begin, complete, abandon and pending.                    *)

\* What _sweep leaves: a process drops what it has held for too long.
Swept(r) ==
    [s \in Auths |->
        IF pending[s].process = r /\ clock - pending[s].created > PendingTtl
        THEN NotPending ELSE pending[s]]

\* An account is connected, or connected again, whatever it has.
Begin(c, a) ==
    /\ Asked(c, "connect") /\ begun < MaxAuths
    /\ begun' = begun + 1
    /\ pending' = [Swept(ProcessOf[c]) EXCEPT ![begun'] =
                     [held |-> TRUE, process |-> ProcessOf[c], account |-> a, created |-> clock]]
    /\ grants' = [grants EXCEPT ![begun'].account = a]
    /\ UNCHANGED <<stored, lock, call, redeemed, hurt, rest>>

\* A buggy variant: the state is looked up and not popped.
CompleteReads(c, s) ==
    /\ Asked(c, "connect") /\ s <= begun
    /\ LET own == Swept(ProcessOf[c])
           found == own[s].held /\ own[s].process = ProcessOf[c] IN
        /\ pending' = own
        /\ found
        /\ call' = [call EXCEPT ![c] =
                      Doing("exchanging", own[s].account, clock, Only(s))]
    /\ UNCHANGED <<stored, begun, lock, platforms, rest>>

\* A redirect arrives, the first, a replayed one or one sent to another
\* process; it is popped before it is spent, and a declined one has no code.
Complete(c, s) ==
    /\ Asked(c, "connect") /\ s <= begun
    /\ LET own == Swept(ProcessOf[c])
           found == own[s].held /\ own[s].process = ProcessOf[c] IN
        /\ pending' = IF found THEN [own EXCEPT ![s] = NotPending] ELSE own
        /\ \/ found /\ call' = [call EXCEPT ![c] =
                               Doing("exchanging", own[s].account, clock, Only(s))]
           \/ UNCHANGED call
    /\ UNCHANGED <<stored, begun, lock, platforms, rest>>

Abandon(c, s) ==
    /\ Asked(c, "connect") /\ s <= begun
    /\ pending[s].held /\ pending[s].process = ProcessOf[c]
    /\ pending' = [pending EXCEPT ![s] = NotPending]
    /\ UNCHANGED <<stored, begun, lock, call, platforms, rest>>

\* pending() sweeps what it lists.
ListPending(c) ==
    /\ Asked(c, "connect")
    /\ pending' = Swept(ProcessOf[c])
    /\ UNCHANGED <<stored, begun, lock, call, platforms, rest>>

-----------------------------------------------------------------------------
(* The platforms.  Instagram renews with the access token itself, which    *)
(* lives no longer than that; the others have refresh tokens.              *)

Ends(a, now) ==
    now + (IF platform[a] = "instagram" THEN AccessTtl ELSE GraceOf)[platform[a]]

\* What the platform keeps of an authorisation whose tokens it has just issued.
Granted(s, honoured, last) ==
    [account |-> grants[s].account, honoured |-> honoured, last |-> last,
     ends |-> Ends(grants[s].account, clock)]

Honours(t) ==
    /\ t.gen \in grants[t.auth].honoured
    /\ clock < grants[t.auth].ends

\* The code and its verifier are good once.  The answer may be a refusal or
\* none, the tokens granted or not: complete() gives up in any of these cases.
Exchange(c) ==
    /\ At(c, "exchanging")
    /\ LET s == call[c].tokens.auth IN
        /\ redeemed' = [redeemed EXCEPT ![s] = IF @ = 2 THEN 2 ELSE @ + 1]
        /\ \/ /\ redeemed[s] = 0
              /\ grants' = [grants EXCEPT ![s] = Granted(s, {1}, 1)]
              /\ \/ Goto(c, "connected") /\ UNCHANGED faults
                 \/ Return(c) /\ Fault
           \/ UNCHANGED <<grants, faults>> /\ Return(c)
    /\ UNCHANGED <<stored, manager, lock, hurt, given>>

\* parse_token_response: what the reply to a request sent by a call that
\* began at `now` is taken to say.
Parsed(a, s, g, now) ==
    [auth |-> s, gen |-> g, expires |-> now + AccessTtl[platform[a]],
     until |-> now + GraceOf[platform[a]]]

\* DurableTokenStore.put.
Put(a, t) == stored' = [stored EXCEPT ![a] = t]

Install(c) ==
    /\ At(c, "connected")
    /\ Put(call[c].account, Parsed(call[c].account, call[c].tokens.auth, 1, call[c].now))
    /\ Return(c)
    /\ UNCHANGED <<manager, lock, platforms, rest>>

-----------------------------------------------------------------------------
(* TokenRefresher.ensure_fresh.                                            *)

\* Tokens that are still good are handed out, and nothing changes.
Look(c, a) ==
    /\ Asked(c, "refresh")
    /\ Stored(a) => NeedsRefresh(stored[a], clock)
    /\ call' = [call EXCEPT ![c] =
                  Doing(IF Stored(a) THEN "waiting" ELSE "reauth", a, clock, stored[a])]
    /\ UNCHANGED <<stored, manager, lock, platforms, rest>>

Free(c) == lock[ProcessOf[c]][call[c].account] = Nobody
Take(c) == lock' = [lock EXCEPT ![ProcessOf[c]][call[c].account] = c]
Release(c) == lock' = [lock EXCEPT ![ProcessOf[c]][call[c].account] = Nobody]

\* A buggy variant: the row is not read again under the lock.
CurrentUnread(c) == call[c].tokens

\* What a caller finds once it has the lock: its own old tokens when the row
\* has none any more.
Current(c) == IF Stored(call[c].account) THEN stored[call[c].account] ELSE call[c].tokens

\* Another process is renewing the same authorisation: the locks do not reach
\* that far.
Overlaps(c, t) ==
    \E d \in Threads : /\ ProcessOf[d] # ProcessOf[c]
                       /\ call[d].step \in {"sending", "renewed"}
                       /\ call[d].tokens.auth = t.auth

\* The lock is taken and the row read again.  Another thread may have
\* refreshed meanwhile; what can no longer be renewed is raised.
Enter(c) ==
    /\ At(c, "waiting") /\ Free(c)
    /\ LET t == Current(c) IN
        \/ /\ ~NeedsRefresh(t, call[c].now)
           /\ Return(c)
           /\ UNCHANGED <<lock, hurt>>
        \/ /\ NeedsRefresh(t, call[c].now) /\ ~CanRefresh(t, call[c].now)
           /\ call' = [call EXCEPT ![c] = Doing("reauth", @.account, @.now, t)]
           /\ UNCHANGED <<lock, hurt>>
        \/ /\ NeedsRefresh(t, call[c].now) /\ CanRefresh(t, call[c].now)
           /\ call' = [call EXCEPT ![c] = Doing("sending", @.account, @.now, t)]
           /\ Take(c)
           /\ hurt' = IF Overlaps(c, t) \/ ~Stored(call[c].account)
                      THEN hurt \union {t.auth} ELSE hurt
    /\ UNCHANGED <<stored, manager, grants, redeemed, rest>>

\* The platform renews.  The reply names a new refresh token or none, and a
\* new one may retire the one that was sent; the reply may be lost.
Renew(c) ==
    LET t == call[c].tokens
        g == grants[t.auth].last + 1 IN
    /\ At(c, "sending") /\ Honours(t)
    /\ \E anew, retires \in BOOLEAN :
        /\ retires => anew
        /\ platform[call[c].account] = "instagram" => anew
        /\ anew => g <= MaxGens
        /\ grants' = IF anew
                     THEN [grants EXCEPT ![t.auth] = Granted(t.auth,
                             (IF retires THEN @.honoured \ {t.gen} ELSE @.honoured) \union {g}, g)]
                     ELSE grants
        /\ \/ /\ call' = [call EXCEPT ![c].step = "renewed", ![c].reply = IF anew THEN g ELSE 0]
              /\ UNCHANGED <<lock, hurt, faults>>
           \/ /\ Fault /\ Return(c) /\ Release(c)
              /\ hurt' = IF retires THEN hurt \union {t.auth} ELSE hurt
    /\ UNCHANGED <<stored, manager, redeemed, given>>

\* The grant is dead: a human must reconnect.
Refuse(c) ==
    /\ At(c, "sending") /\ ~Honours(call[c].tokens)
    /\ Goto(c, "reauth") /\ Release(c)
    /\ UNCHANGED <<stored, manager, platforms, rest>>

\* No answer, or one that says nothing: to be tried again.
RefreshFails(c) ==
    /\ At(c, "sending")
    /\ Return(c) /\ Release(c)
    /\ UNCHANGED <<stored, manager, platforms, rest>>

\* A buggy variant: the reply is stored as it came.
FreshAsReplied(c) ==
    Parsed(call[c].account, call[c].tokens.auth, call[c].reply, call[c].now)

\* What _refresh stores: a reply without a refresh token leaves the old one in
\* force, and its end.
Fresh(c) ==
    LET t == call[c].tokens
        reply == Parsed(call[c].account, t.auth, call[c].reply, call[c].now) IN
    IF reply.gen # 0 THEN reply ELSE [reply EXCEPT !.gen = t.gen, !.until = t.until]

StoreFresh(c) ==
    /\ At(c, "renewed")
    /\ Put(call[c].account, Fresh(c))
    /\ Return(c) /\ Release(c)
    /\ UNCHANGED <<manager, platforms, rest>>

\* The caller hears ReauthRequired.
Told(c) ==
    /\ At(c, "reauth")
    /\ Return(c)
    /\ UNCHANGED <<stored, manager, lock, platforms, rest>>

-----------------------------------------------------------------------------
(* AccountManager.disconnect.                                              *)

Disconnect(c, a) ==
    /\ Asked(c, "disconnect") /\ Stored(a)
    /\ call' = [call EXCEPT ![c] =
                  Doing(IF platform[a] = "instagram" THEN "forgetting" ELSE "revoking",
                        a, 0, Only(stored[a].auth))]
    /\ UNCHANGED <<stored, manager, lock, platforms, rest>>

\* What the platform makes of it does not stop the deletion.
Revoke(c) ==
    /\ At(c, "revoking")
    /\ \/ /\ grants' = [grants EXCEPT ![call[c].tokens.auth].honoured = {}]
          /\ hurt' = hurt \union {call[c].tokens.auth}
          /\ UNCHANGED faults
       \/ Fault /\ UNCHANGED <<grants, hurt>>
    /\ Goto(c, "forgetting")
    /\ UNCHANGED <<stored, manager, lock, redeemed, given>>

\* DurableTokenStore.delete, of whatever is there by now.
Forget(c) ==
    /\ At(c, "forgetting")
    /\ Put(call[c].account, NoTokens)
    /\ hurt' = hurt \union ({stored[call[c].account].auth} \ {0})
    /\ Return(c)
    /\ UNCHANGED <<manager, lock, grants, redeemed, rest>>

-----------------------------------------------------------------------------
(* The creator, time and processes.                                        *)

\* The creator removes the application on the platform.
Withdraw(s) ==
    /\ grants[s].honoured # {} /\ Fault
    /\ grants' = [grants EXCEPT ![s].honoured = {}]
    /\ hurt' = hurt \union {s}
    /\ UNCHANGED <<stored, manager, lock, call, redeemed, given>>

Tick ==
    /\ clock < MaxClock
    /\ clock' = clock + 1
    /\ UNCHANGED <<duty, platform, stored, manager, lock, call, platforms, faults>>

\* A process dies: its locks and what it held for creators go with it, and so
\* does a reply that is not stored yet.
Crash(r) ==
    LET own == {c \in Threads : ProcessOf[c] = r}
        lost == {c \in own : At(c, "renewed") /\ ~Honours(call[c].tokens)} IN
    /\ Fault
    /\ \E c \in own : ~At(c, "idle")
    /\ call' = [c \in Threads |-> IF c \in own THEN Idle ELSE call[c]]
    /\ lock' = [lock EXCEPT ![r] = [a \in Accounts |-> Nobody]]
    /\ pending' = [s \in Auths |-> IF pending[s].process = r THEN NotPending ELSE pending[s]]
    /\ hurt' = hurt \union {call[c].tokens.auth : c \in lost}
    /\ UNCHANGED <<given, stored, begun, grants, redeemed>>

\* The accounts are as yet unconnected.
Init ==
    /\ duty \in Duties
    /\ platform \in [Accounts -> Platforms]
    /\ clock = 0
    /\ stored = [a \in Accounts |-> NoTokens]
    /\ pending = [s \in Auths |-> NotPending]
    /\ begun = 0
    /\ lock = [r \in Processes |-> [a \in Accounts |-> Nobody]]
    /\ call = [c \in Threads |-> Idle]
    /\ grants = [s \in Auths |-> [account |-> Idle.account, honoured |-> {}, last |-> 0, ends |-> 0]]
    /\ faults = 0
    /\ redeemed = [s \in Auths |-> 0]
    /\ hurt = {}

Connect(c) ==
    \/ \E a \in Accounts : Begin(c, a)
    \/ \E s \in Auths : Complete(c, s) \/ Abandon(c, s)
    \/ ListPending(c) \/ Exchange(c) \/ Install(c)

Refresh(c) ==
    \/ \E a \in Accounts : Look(c, a)
    \/ Enter(c) \/ Renew(c) \/ Refuse(c) \/ RefreshFails(c) \/ StoreFresh(c) \/ Told(c)

Leave(c) ==
    \/ \E a \in Accounts : Disconnect(c, a)
    \/ Revoke(c) \/ Forget(c)

\* Creators, posts and operators may be done with it.
Quiet == (\A c \in Threads : At(c, "idle")) /\ UNCHANGED vars

Next ==
    \/ \E c \in Threads : Connect(c) \/ Refresh(c) \/ Leave(c)
    \/ \E s \in Auths : Withdraw(s)
    \/ \E r \in Processes : Crash(r)
    \/ Tick
    \/ Quiet

Spec == Init /\ [][Next]_vars

-----------------------------------------------------------------------------
(* Properties.                                                             *)

\* What the row of a connected account says can be renewed: there is a refresh
\* token and the platform has not retired it, unless its successor is on its
\* way to the row.  This holds until the authorisation is ended from outside,
\* a successor is lost on the way, or two processes renew it at once.
HealthyStaysRenewable ==
    \A a \in Accounts :
        Stored(a) /\ stored[a].auth \notin hurt =>
            /\ stored[a].gen # 0
            /\ \/ stored[a].gen \in grants[stored[a].auth].honoured
               \/ \E c \in Threads : /\ At(c, "renewed") /\ call[c].account = a
                                     /\ call[c].tokens.auth = stored[a].auth

\* A human is asked to reconnect an account only if its authorisation is over:
\* it has none, was ended, or has run out.  No healthy account is reported
\* because two threads met, or because a platform did not answer.
ReauthMeansDead ==
    \A c \in Threads : At(c, "reauth") =>
        LET t == call[c].tokens IN
        \/ t.auth = 0
        \/ t.auth \in hurt
        \/ clock >= t.until
        \/ platform[call[c].account] = "instagram" /\ clock >= t.expires

\* An authorisation is redeemed once at most, whatever callbacks are replayed
\* and whichever processes they reach, and its tokens end up on the account it
\* was begun for.
RedeemedOnce ==
    /\ \A s \in Auths : redeemed[s] <= 1
    /\ \A a \in Accounts : Stored(a) => grants[stored[a].auth].account = a

\* A lock is held by a thread that is renewing that account, and by one per
\* process: no way out of a renewal, nor the loss of a process, keeps an account
\* locked for everybody, and two threads of a process never renew it at once.
LocksAreInUse ==
    \A r \in Processes, a \in Accounts :
        LET renewing == {c \in Threads : /\ ProcessOf[c] = r /\ call[c].account = a
                                        /\ call[c].step \in {"sending", "renewed"}} IN
        renewing = {lock[r][a]} \ {Nobody}
=============================================================================
