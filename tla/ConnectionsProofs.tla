-------------------------- MODULE ConnectionsProofs --------------------------
(***************************************************************************)
(* Theorems about Connections, for any accounts, threads, processes, times *)
(* and faults.                                                             *)
(***************************************************************************)
EXTENDS Connections, TLAPS

Renewing(c) == call[c].step \in {"sending", "renewed"}

\* The threads that will write tokens of an authorisation, or ask for some.
Holding(c) == call[c].step \in {"exchanging", "connected", "waiting", "sending", "renewed"}

\* Whoever has an authorisation has it for the account it was begun for.
ForItsAccount ==
    /\ \A a \in Accounts : Stored(a) =>
        stored[a].auth <= begun /\ grants[stored[a].auth].account = a
    /\ \A c \in Threads : Holding(c) =>
        /\ call[c].tokens.auth \in 1..begun
        /\ grants[call[c].tokens.auth].account = call[c].account
    /\ \A c \in Threads : At(c, "revoking") => call[c].tokens.auth # 0
    /\ \A s \in Auths : pending[s].held =>
        s <= begun /\ grants[s].account = pending[s].account

\* Nobody has tokens of an authorisation yet.
Unheard(s) ==
    /\ \A a \in Accounts : stored[a].auth # s
    /\ \A c \in Threads : call[c].step \in {"waiting", "sending", "renewed"} =>
                            call[c].tokens.auth # s

\* The state is with the process that made it, then with one thread, then
\* spent; and its first tokens are with one thread before they are stored.
SingleUse ==
    /\ \A s \in Auths :
        /\ redeemed[s] <= 1
        /\ s > begun => redeemed[s] = 0
        /\ redeemed[s] = 0 => Unheard(s)
        /\ pending[s].held => redeemed[s] = 0
    /\ \A c \in Threads : At(c, "exchanging") =>
        redeemed[call[c].tokens.auth] = 0 /\ ~pending[call[c].tokens.auth].held
    /\ \A c \in Threads : At(c, "connected") =>
        redeemed[call[c].tokens.auth] = 1 /\ Unheard(call[c].tokens.auth)
    /\ \A c, d \in Threads :
        call[c].step \in {"exchanging", "connected"} /\ call[d].step \in {"exchanging", "connected"}
        /\ call[c].tokens.auth = call[d].tokens.auth => c = d

\* An authorisation that was not hurt is renewed by one thread at a time, which
\* works on the tokens that are stored.
OneRenewal ==
    /\ \A c, d \in Threads :
        Renewing(c) /\ Renewing(d) /\ call[c].tokens.auth = call[d].tokens.auth /\ c # d
            => call[c].tokens.auth \in hurt
    /\ \A c \in Threads :
        Renewing(c) /\ call[c].tokens.auth \notin hurt
        /\ stored[call[c].account].auth = call[c].tokens.auth
            => stored[call[c].account].gen = call[c].tokens.gen

\* What is sent is honoured, and so is what comes back.
Honoured(s, g) == g \in grants[s].honoured

InForce ==
    /\ \A a \in Accounts : Stored(a) => stored[a].gen # 0
    /\ \A c \in Threads : call[c].step \in {"waiting", "sending", "renewed"} =>
        call[c].tokens.gen # 0
    /\ \A c \in Threads : At(c, "connected") /\ call[c].tokens.auth \notin hurt =>
        Honoured(call[c].tokens.auth, 1)
    /\ \A c \in Threads : At(c, "sending") /\ call[c].tokens.auth \notin hurt =>
        Honoured(call[c].tokens.auth, call[c].tokens.gen)
    /\ \A c \in Threads : At(c, "renewed") /\ call[c].tokens.auth \notin hurt =>
        Honoured(call[c].tokens.auth,
                 IF call[c].reply = 0 THEN call[c].tokens.gen ELSE call[c].reply)

\* What the row says of tokens ends no later than the platform's word.
Lasts(t, a) ==
    (IF platform[a] = "instagram" THEN t.expires ELSE t.until) <= grants[t.auth].ends

\* The reply that is read now is from a request made since `now`.
Lasting(c) == Ends(call[c].account, call[c].now) <= grants[call[c].tokens.auth].ends

InTime ==
    /\ \A s \in Auths : redeemed[s] = 0 => grants[s].ends = 0
    /\ \A s \in Auths : grants[s].ends <= Ends(grants[s].account, clock)
    /\ \A c \in Threads : Holding(c) => call[c].now <= clock
    /\ \A a \in Accounts : Stored(a) /\ stored[a].auth \notin hurt => Lasts(stored[a], a)
    /\ \A c \in Threads : At(c, "connected") /\ call[c].tokens.auth \notin hurt => Lasting(c)
    /\ \A c \in Threads : At(c, "sending") /\ call[c].tokens.auth \notin hurt =>
            Lasts(call[c].tokens, call[c].account)
    /\ \A c \in Threads : At(c, "renewed") /\ call[c].tokens.auth \notin hurt =>
            IF call[c].reply # 0 THEN Lasting(c)
            ELSE /\ platform[call[c].account] # "instagram"
                 /\ Lasts(call[c].tokens, call[c].account)

\* The inductive invariant.
ConnInv == TypeOK /\ LocksAreInUse /\ ForItsAccount /\ SingleUse /\ OneRenewal
           /\ InForce /\ HealthyStaysRenewable /\ InTime /\ ReauthMeansDead
-----------------------------------------------------------------------------
(* Types.                                                                  *)

USE NamesAssumption, TimesAssumption

LEMMA RestTypes ==
    /\ \A s \in 0..MaxAuths : Only(s) \in TokenSets
    /\ NoTokens \in TokenSets
    /\ \A s \in Steps, a \in Accounts, now \in Nat, t \in TokenSets : Doing(s, a, now, t) \in Calls
    /\ Idle \in Calls
    /\ NotPending \in PendingConnections
<1>1. \A s \in 0..MaxAuths : Only(s) \in TokenSets
  BY DEF Only, TokenSets
<1>2. NoTokens \in TokenSets
  BY <1>1 DEF NoTokens
<1>3. \A s \in Steps, a \in Accounts, now \in Nat, t \in TokenSets : Doing(s, a, now, t) \in Calls
  BY DEF Doing, Calls
<1>4. (CHOOSE a \in Accounts : TRUE) \in Accounts
  OBVIOUS
<1>5. (CHOOSE r \in Processes : TRUE) \in Processes
  OBVIOUS
<1>6. Idle \in Calls
  BY <1>2, <1>3, <1>4 DEF Idle, Steps
<1> QED  BY <1>1, <1>2, <1>3, <1>4, <1>5, <1>6 DEF NotPending, PendingConnections

\* The life of tokens and of what the platform keeps.
LEMMA LifeTypes ==
    ASSUME TypeOK, NEW a \in Accounts
    PROVE  /\ AccessTtl[platform[a]] \in Nat /\ GraceOf[platform[a]] \in Nat
           /\ \A now \in Nat : Ends(a, now) \in Nat
           /\ \A s \in 0..MaxAuths, g \in 0..MaxGens, now \in Nat :
                 Parsed(a, s, g, now) \in TokenSets
<1>1. AccessTtl[platform[a]] \in Nat /\ GraceOf[platform[a]] \in Nat
  BY DEF TypeOK
<1>2. \A now \in Nat : Ends(a, now) \in Nat
  <2> TAKE now \in Nat
  <2>1. CASE platform[a] = "instagram"
    BY <1>1, <2>1 DEF Ends
  <2>2. CASE platform[a] # "instagram"
    BY <1>1, <2>2 DEF Ends
  <2> QED  BY <2>1, <2>2
<1>3. \A s \in 0..MaxAuths, g \in 0..MaxGens, now \in Nat : Parsed(a, s, g, now) \in TokenSets
  <2> TAKE s \in 0..MaxAuths, g \in 0..MaxGens, now \in Nat
  <2>1. now + AccessTtl[platform[a]] \in Nat /\ now + GraceOf[platform[a]] \in Nat
    BY <1>1
  <2> QED  BY <2>1 DEF Parsed, TokenSets
<1> QED  BY <1>1, <1>2, <1>3

\* Whoever goes on keeps the rest of its record.
LEMMA GotoTypes ==
    ASSUME TypeOK, NEW c \in Threads, NEW s \in Steps
    PROVE  /\ Goto(c, s) => call' \in [Threads -> Calls]
           /\ Return(c) => call' \in [Threads -> Calls]
           /\ \A t \in TokenSets : [call[c] EXCEPT !.step = s, !.tokens = t] \in Calls
           /\ \A g \in 0..MaxGens : [call[c] EXCEPT !.step = s, !.reply = g] \in Calls
<1>1. call[c] \in Calls
  BY DEF TypeOK
<1>2. [call[c] EXCEPT !.step = s] \in Calls
  BY <1>1 DEF Calls
<1>3. Goto(c, s) => call' \in [Threads -> Calls]
  BY <1>2 DEF TypeOK, Goto
<1>4. Return(c) => call' \in [Threads -> Calls]
  BY RestTypes DEF TypeOK, Return
<1>5. \A t \in TokenSets : [call[c] EXCEPT !.step = s, !.tokens = t] \in Calls
  BY <1>1 DEF Calls
<1>6. \A g \in 0..MaxGens : [call[c] EXCEPT !.step = s, !.reply = g] \in Calls
  BY <1>1 DEF Calls
<1> QED  BY <1>3, <1>4, <1>5, <1>6

LEMMA LockTypes ==
    ASSUME TypeOK, NEW c \in Threads
    PROVE  /\ Take(c) => lock' \in [Processes -> [Accounts -> Threads \union {Nobody}]]
           /\ Release(c) => lock' \in [Processes -> [Accounts -> Threads \union {Nobody}]]
<1>1. lock[ProcessOf[c]] \in [Accounts -> Threads \union {Nobody}]
  BY DEF TypeOK
<1>2. \A v \in Threads \union {Nobody} :
        [lock[ProcessOf[c]] EXCEPT ![call[c].account] = v] \in [Accounts -> Threads \union {Nobody}]
  BY <1>1
<1>3. Take(c) => lock' \in [Processes -> [Accounts -> Threads \union {Nobody}]]
  BY <1>2 DEF TypeOK, Take
<1>4. Release(c) => lock' \in [Processes -> [Accounts -> Threads \union {Nobody}]]
  BY <1>2 DEF TypeOK, Release
<1> QED  BY <1>3, <1>4

LEMMA SweptTypes ==
    ASSUME TypeOK, NEW r \in Processes
    PROVE  Swept(r) \in [Auths -> PendingConnections]
BY RestTypes DEF TypeOK, Swept

\* What the platforms keep.
GrantRows == [account : Accounts, honoured : SUBSET (1..MaxGens), last : 0..MaxGens, ends : Nat]

LEMMA GrantTypes ==
    ASSUME TypeOK, NEW s \in Auths
    PROVE  /\ \A a \in Accounts : [grants EXCEPT ![s].account = a] \in [Auths -> GrantRows]
           /\ [grants EXCEPT ![s].honoured = {}] \in [Auths -> GrantRows]
           /\ \A h \in SUBSET (1..MaxGens), g \in 0..MaxGens :
                [grants EXCEPT ![s] = Granted(s, h, g)] \in [Auths -> GrantRows]
<1>1. grants \in [Auths -> GrantRows] /\ grants[s] \in GrantRows
  BY DEF TypeOK, GrantRows
<1>2. \A a \in Accounts : [grants[s] EXCEPT !.account = a] \in GrantRows
  BY <1>1 DEF GrantRows
<1>3. [grants[s] EXCEPT !.honoured = {}] \in GrantRows
  BY <1>1 DEF GrantRows
<1>4. \A h \in SUBSET (1..MaxGens), g \in 0..MaxGens : Granted(s, h, g) \in GrantRows
  <2>1. grants[s].account \in Accounts /\ clock \in Nat
    BY <1>1 DEF GrantRows, TypeOK
  <2>2. Ends(grants[s].account, clock) \in Nat
    BY <2>1, LifeTypes
  <2> QED  BY <2>1, <2>2 DEF Granted, GrantRows
<1> QED  BY <1>1, <1>2, <1>3, <1>4

LEMMA TypesStep ==
    ASSUME TypeOK, ForItsAccount, Next
    PROVE  TypeOK'
<1>1. ASSUME NEW c \in Threads, NEW a \in Accounts, Begin(c, a)
      PROVE  TypeOK'
  <2> DEFINE new == [held |-> TRUE, process |-> ProcessOf[c], account |-> a, created |-> clock]
  <2>1. begun' \in 0..MaxAuths /\ begun' \in Auths
    BY <1>1 DEF Begin, TypeOK, Auths
  <2>2. new \in PendingConnections
    BY DEF TypeOK, PendingConnections
  <2>3. pending' \in [Auths -> PendingConnections]
    BY <1>1, <2>1, <2>2, SweptTypes DEF Begin
  <2>4. grants' \in [Auths -> GrantRows]
    BY <1>1, <2>1, GrantTypes DEF Begin
  <2>5. UNCHANGED <<stored, lock, call, redeemed, hurt, duty, platform, clock, faults>>
    BY <1>1 DEF Begin, rest
  <2> QED  BY <2>1, <2>3, <2>4, <2>5 DEF TypeOK, GrantRows
<1>2. ASSUME NEW c \in Threads, NEW s \in Auths, Complete(c, s)
      PROVE  TypeOK'
  <2> DEFINE own == Swept(ProcessOf[c])
  <2>1. own \in [Auths -> PendingConnections]
    BY SweptTypes
  <2>2. pending' \in [Auths -> PendingConnections]
    BY <1>2, <2>1, RestTypes DEF Complete
  <2>3. Doing("exchanging", own[s].account, clock, Only(s)) \in Calls
    BY <2>1, RestTypes DEF Steps, PendingConnections, TypeOK, Auths
  <2>4. call' \in [Threads -> Calls]
    BY <1>2, <2>3 DEF Complete, TypeOK
  <2> QED  BY <1>2, <2>2, <2>4 DEF Complete, TypeOK, rest, platforms
<1>3. ASSUME NEW c \in Threads, NEW s \in Auths, Abandon(c, s)
      PROVE  TypeOK'
  <2>1. pending' \in [Auths -> PendingConnections]
    BY <1>3, RestTypes DEF Abandon, TypeOK
  <2> QED  BY <1>3, <2>1 DEF Abandon, TypeOK, rest, platforms
<1>4. ASSUME NEW c \in Threads, ListPending(c)
      PROVE  TypeOK'
  BY <1>4, SweptTypes DEF ListPending, TypeOK, rest, platforms
<1>5. ASSUME NEW c \in Threads, Exchange(c)
      PROVE  TypeOK'
  <2> DEFINE s == call[c].tokens.auth
  <2>1. s \in Auths
    BY <1>5 DEF Exchange, At, ForItsAccount, Holding, TypeOK, Auths
  <2>2. redeemed' \in [Auths -> 0..2]
    <3> DEFINE v == IF redeemed[s] = 2 THEN 2 ELSE redeemed[s] + 1
    <3>1. redeemed[s] \in 0..2
      BY <2>1 DEF TypeOK
    <3>2. v \in 0..2
      BY <3>1
    <3>3. redeemed' = [redeemed EXCEPT ![s] = v]
      BY <1>5 DEF Exchange
    <3> HIDE DEF v, s
    <3> QED  BY <3>2, <3>3 DEF TypeOK
  <2>3. grants' \in [Auths -> GrantRows]
    <3>1. [grants EXCEPT ![s] = Granted(s, {1}, 1)] \in [Auths -> GrantRows]
      <4> HIDE DEF s
      <4>1. {1} \in SUBSET (1..MaxGens) /\ 1 \in 0..MaxGens
        OBVIOUS
      <4> QED  BY <2>1, <4>1, GrantTypes
    <3>2. grants \in [Auths -> GrantRows]
      BY DEF TypeOK, GrantRows
    <3> QED  BY <1>5, <3>1, <3>2 DEF Exchange
  <2>4. call' \in [Threads -> Calls]
    BY <1>5, GotoTypes DEF Exchange, Steps
  <2>5. faults' \in 0..MaxFaults
    BY <1>5 DEF Exchange, Fault, TypeOK
  <2> QED  BY <1>5, <2>2, <2>3, <2>4, <2>5 DEF Exchange, TypeOK, GrantRows, given, manager
<1>6. ASSUME NEW c \in Threads, Install(c)
      PROVE  TypeOK'
  <2> DEFINE t == Parsed(call[c].account, call[c].tokens.auth, 1, call[c].now)
  <2>1. call[c] \in Calls /\ call[c].tokens.auth \in 0..MaxAuths
    BY DEF TypeOK, Calls, TokenSets
  <2>2. t \in TokenSets
    BY <2>1, LifeTypes DEF Calls
  <2>3. stored' \in [Accounts -> TokenSets]
    BY <1>6, <2>2 DEF Install, Put, TypeOK
  <2>4. call' \in [Threads -> Calls]
    BY <1>6, GotoTypes DEF Install, Steps
  <2> QED  BY <1>6, <2>3, <2>4 DEF Install, TypeOK, rest, manager, platforms
<1>7. ASSUME NEW c \in Threads, NEW a \in Accounts, Look(c, a)
      PROVE  TypeOK'
  <2>1. \A x \in {"waiting", "reauth"} : Doing(x, a, clock, stored[a]) \in Calls
    BY RestTypes DEF Steps, TypeOK
  <2>2. call' \in [Threads -> Calls]
    BY <1>7, <2>1 DEF Look, TypeOK
  <2> QED  BY <1>7, <2>2 DEF Look, TypeOK, rest, manager, platforms
<1>8. ASSUME NEW c \in Threads, Enter(c)
      PROVE  TypeOK'
  <2> DEFINE t == Current(c)
  <2>1. call[c] \in Calls /\ t \in TokenSets
    BY DEF Current, TypeOK, Calls
  <2>2. t.auth \in Auths
    <3>1. CASE Stored(call[c].account)
      <4>1. stored[call[c].account] \in TokenSets
        BY <2>1 DEF TypeOK, Calls
      <4> QED  BY <3>1, <4>1 DEF Stored, TokenSets, Auths, Current
    <3>2. CASE ~Stored(call[c].account)
      BY <1>8, <3>2 DEF Enter, At, ForItsAccount, Holding, TypeOK, Auths, Current
    <3> QED  BY <3>1, <3>2
  <2>3. call' \in [Threads -> Calls]
    <3>1. \A x \in {"reauth", "sending"} : Doing(x, call[c].account, call[c].now, t) \in Calls
      BY <2>1, RestTypes DEF Steps, Calls
    <3>2. \/ Return(c)
          \/ \E x \in {"reauth", "sending"} :
                call' = [call EXCEPT ![c] = Doing(x, call[c].account, call[c].now, t)]
      BY <1>8 DEF Enter, TypeOK
    <3> HIDE DEF t
    <3> QED  BY <3>1, <3>2, GotoTypes DEF TypeOK, Steps
  <2>4. hurt' \subseteq Auths
    BY <1>8, <2>2 DEF Enter, TypeOK
  <2>5. lock' \in [Processes -> [Accounts -> Threads \union {Nobody}]]
    BY <1>8, LockTypes DEF Enter, TypeOK
  <2> QED  BY <1>8, <2>3, <2>4, <2>5 DEF Enter, TypeOK, rest, manager
<1>9. ASSUME NEW c \in Threads, Renew(c)
      PROVE  TypeOK'
  <2> DEFINE t == call[c].tokens
             g == grants[t.auth].last + 1
  <2>1. t.auth \in Auths
    BY <1>9 DEF Renew, At, ForItsAccount, Holding, TypeOK, Auths
  <2>2. grants[t.auth] \in GrantRows /\ grants \in [Auths -> GrantRows]
    BY <2>1 DEF TypeOK, GrantRows
  <2>3. PICK anew, retires \in BOOLEAN :
        /\ anew => g <= MaxGens
        /\ grants' = IF anew
                     THEN [grants EXCEPT ![t.auth] = Granted(t.auth,
                             (IF retires THEN grants[t.auth].honoured \ {t.gen}
                              ELSE grants[t.auth].honoured) \union {g}, g)]
                     ELSE grants
        /\ \/ /\ call' = [call EXCEPT ![c].step = "renewed", ![c].reply = IF anew THEN g ELSE 0]
              /\ UNCHANGED <<lock, hurt, faults>>
           \/ /\ Fault /\ Return(c) /\ Release(c)
              /\ hurt' = IF retires THEN hurt \union {t.auth} ELSE hurt
    BY <1>9, <2>1, <2>2 DEF Renew
  <2>4. anew => g \in 1..MaxGens
    BY <2>2, <2>3 DEF GrantRows
  <2>5. grants' \in [Auths -> GrantRows]
    <3>1. CASE anew
      <4> DEFINE h == (IF retires THEN grants[t.auth].honoured \ {t.gen}
                       ELSE grants[t.auth].honoured) \union {g}
      <4>1. h \in SUBSET (1..MaxGens) /\ g \in 0..MaxGens
        BY <2>2, <2>4, <3>1 DEF GrantRows
      <4> HIDE DEF h, g, t
      <4>2. [grants EXCEPT ![t.auth] = Granted(t.auth, h, g)] \in [Auths -> GrantRows]
        BY <2>1, <4>1, GrantTypes
      <4> USE DEF h
      <4> QED  BY <2>3, <3>1, <4>2
    <3>2. CASE ~anew
      BY <2>2, <2>3, <3>2
    <3> QED  BY <3>1, <3>2
  <2>6. call' \in [Threads -> Calls]
    <3>1. (IF anew THEN g ELSE 0) \in 0..MaxGens
      BY <2>4
    <3>2. \/ Return(c)
          \/ call' = [call EXCEPT ![c] = [call[c] EXCEPT !.step = "renewed",
                                            !.reply = IF anew THEN g ELSE 0]]
      BY <2>3
    <3> DEFINE v == IF anew THEN g ELSE 0
    <3> HIDE DEF g, v
    <3>3. v \in 0..MaxGens
      BY <3>1 DEF v
    <3>4. [call[c] EXCEPT !.step = "renewed", !.reply = v] \in Calls
      BY <3>3, GotoTypes DEF Steps
    <3>5. Return(c) => call' \in [Threads -> Calls]
      BY GotoTypes DEF Steps
    <3> QED  BY <3>2, <3>4, <3>5 DEF v, TypeOK
  <2>7. lock' \in [Processes -> [Accounts -> Threads \union {Nobody}]]
    BY <2>3, LockTypes DEF TypeOK
  <2>8. hurt' \subseteq Auths /\ faults' \in 0..MaxFaults
    BY <2>1, <2>3 DEF TypeOK, Fault
  <2> QED  BY <1>9, <2>5, <2>6, <2>7, <2>8 DEF Renew, TypeOK, GrantRows, given, manager
<1>10. ASSUME NEW c \in Threads, Refuse(c) \/ RefreshFails(c) \/ Told(c)
       PROVE  TypeOK'
  <2>1. call' \in [Threads -> Calls]
    BY <1>10, GotoTypes DEF Refuse, RefreshFails, Told, Steps
  <2>2. lock' \in [Processes -> [Accounts -> Threads \union {Nobody}]]
    BY <1>10, LockTypes DEF Refuse, RefreshFails, Told, TypeOK
  <2> QED  BY <1>10, <2>1, <2>2 DEF Refuse, RefreshFails, Told, TypeOK, rest, manager, platforms
<1>11. ASSUME NEW c \in Threads, StoreFresh(c)
       PROVE  TypeOK'
  <2>1. Fresh(c) \in TokenSets
    <3> DEFINE t == call[c].tokens
               reply == Parsed(call[c].account, t.auth, call[c].reply, call[c].now)
    <3>1. t \in TokenSets /\ call[c] \in Calls
      BY DEF TypeOK, Calls
    <3>2. reply \in TokenSets
      BY <3>1, LifeTypes DEF Calls, TokenSets
    <3>3. [reply EXCEPT !.gen = t.gen, !.until = t.until] \in TokenSets
      <4> HIDE DEF reply, t
      <4> QED  BY <3>1, <3>2 DEF TokenSets
    <3> QED  BY <3>2, <3>3 DEF Fresh
  <2>2. stored' \in [Accounts -> TokenSets]
    BY <1>11, <2>1 DEF StoreFresh, Put, TypeOK
  <2>3. call' \in [Threads -> Calls] /\ lock' \in [Processes -> [Accounts -> Threads \union {Nobody}]]
    BY <1>11, GotoTypes, LockTypes DEF StoreFresh, Steps
  <2> QED  BY <1>11, <2>2, <2>3 DEF StoreFresh, TypeOK, rest, manager, platforms
<1>12. ASSUME NEW c \in Threads, NEW a \in Accounts, Disconnect(c, a)
       PROVE  TypeOK'
  <2>1. Only(stored[a].auth) \in TokenSets
    BY RestTypes DEF TypeOK, TokenSets
  <2>2. \A x \in {"forgetting", "revoking"} : Doing(x, a, 0, Only(stored[a].auth)) \in Calls
    BY <2>1, RestTypes DEF Steps
  <2>3. call' \in [Threads -> Calls]
    BY <1>12, <2>2 DEF Disconnect, TypeOK
  <2> QED  BY <1>12, <2>3 DEF Disconnect, TypeOK, rest, manager, platforms
<1>13. ASSUME NEW c \in Threads, Revoke(c)
       PROVE  TypeOK'
  <2>1. call[c].tokens.auth \in Auths
    <3>1. call[c].tokens.auth \in 0..MaxAuths
      BY DEF TypeOK, Calls, TokenSets
    <3>2. call[c].tokens.auth # 0
      BY <1>13 DEF Revoke, ForItsAccount
    <3> QED  BY <3>1, <3>2 DEF Auths
  <2>2. grants' \in [Auths -> GrantRows]
    <3>1. grants \in [Auths -> GrantRows]
      BY DEF TypeOK, GrantRows
    <3> QED  BY <1>13, <2>1, <3>1, GrantTypes DEF Revoke
  <2>3. call' \in [Threads -> Calls]
    BY <1>13, GotoTypes DEF Revoke, Steps
  <2>4. hurt' \subseteq Auths /\ faults' \in 0..MaxFaults
    BY <1>13, <2>1 DEF Revoke, Fault, TypeOK
  <2> QED  BY <1>13, <2>2, <2>3, <2>4 DEF Revoke, TypeOK, GrantRows, given, manager
<1>14. ASSUME NEW c \in Threads, Forget(c)
       PROVE  TypeOK'
  <2>1. stored[call[c].account].auth \in 0..MaxAuths
    BY DEF TypeOK, TokenSets, Calls
  <2>2. stored' \in [Accounts -> TokenSets]
    BY <1>14, RestTypes DEF Forget, Put, TypeOK
  <2>4. hurt' \subseteq Auths
    <3> DEFINE s == stored[call[c].account].auth
    <3>1. hurt' = hurt \union ({s} \ {0})
      BY <1>14 DEF Forget
    <3>2. s = 0 \/ s \in Auths
      BY <2>1 DEF Auths
    <3> HIDE DEF s
    <3> QED  BY <3>1, <3>2 DEF TypeOK
  <2>3. call' \in [Threads -> Calls]
    BY <1>14, GotoTypes DEF Forget, Steps
  <2> QED  BY <1>14, <2>2, <2>3, <2>4 DEF Forget, TypeOK, rest, manager
<1>15. ASSUME NEW s \in Auths, Withdraw(s)
       PROVE  TypeOK'
  <2>1. grants' \in [Auths -> GrantRows]
    BY <1>15, GrantTypes DEF Withdraw
  <2>2. hurt' \subseteq Auths /\ faults' \in 0..MaxFaults
    BY <1>15 DEF Withdraw, Fault, TypeOK
  <2> QED  BY <1>15, <2>1, <2>2 DEF Withdraw, TypeOK, GrantRows, given, manager
<1>16. ASSUME NEW r \in Processes, Crash(r)
       PROVE  TypeOK'
  <2> DEFINE own == {c \in Threads : ProcessOf[c] = r}
             lost == {c \in own : At(c, "renewed") /\ ~Honours(call[c].tokens)}
  <2>1. call' \in [Threads -> Calls]
    BY <1>16, RestTypes DEF Crash, TypeOK
  <2>2. lock' \in [Processes -> [Accounts -> Threads \union {Nobody}]]
    BY <1>16 DEF Crash, TypeOK
  <2>3. pending' \in [Auths -> PendingConnections]
    BY <1>16, RestTypes DEF Crash, TypeOK
  <2>4. \A c \in lost : call[c].tokens.auth \in Auths
    BY DEF At, ForItsAccount, Holding, TypeOK, Auths
  <2>5. hurt' = hurt \union {call[c].tokens.auth : c \in lost}
    BY <1>16 DEF Crash
  <2>6. hurt' \subseteq Auths
    <3> HIDE DEF lost
    <3> QED  BY <2>4, <2>5 DEF TypeOK
  <2>7. faults' \in 0..MaxFaults
    BY <1>16 DEF Crash, Fault, TypeOK
  <2> QED  BY <1>16, <2>1, <2>2, <2>3, <2>6, <2>7 DEF Crash, TypeOK, given
<1>17. CASE Tick
  BY <1>17 DEF Tick, TypeOK, manager, platforms
<1>18. CASE Quiet
  BY <1>18 DEF Quiet, vars, TypeOK
<1> QED
  BY <1>1, <1>2, <1>3, <1>4, <1>5, <1>6, <1>7, <1>8, <1>9, <1>10, <1>11, <1>12,
     <1>13, <1>14, <1>15, <1>16, <1>17, <1>18
  DEF Next, Connect, Refresh, Leave

-----------------------------------------------------------------------------
(* What each step does, field by field.                                    *)

\* Only one thread moves.
Alone(c) == \A d \in Threads : d # c => call'[d] = call[d]

\* It goes on with what it had.
Keeps(c) ==
    /\ call'[c].account = call[c].account /\ call'[c].now = call[c].now
    /\ call'[c].tokens = call[c].tokens

LEMMA Moves ==
    ASSUME TypeOK, NEW c \in Threads
    PROVE  /\ Return(c) => Alone(c) /\ call'[c].step = "idle"
           /\ \A s \in Steps : Goto(c, s) => Alone(c) /\ Keeps(c) /\ call'[c].step = s
           /\ \A s \in Steps, g \in 0..MaxGens :
                call' = [call EXCEPT ![c].step = s, ![c].reply = g] =>
                    Alone(c) /\ Keeps(c) /\ call'[c].step = s /\ call'[c].reply = g
<1>1. call[c] \in Calls
  BY DEF TypeOK
<1>2. Return(c) => Alone(c) /\ call'[c].step = "idle"
  BY DEF Return, Alone, TypeOK, Idle, Doing
<1>3. \A s \in Steps : Goto(c, s) => Alone(c) /\ Keeps(c) /\ call'[c].step = s
  BY <1>1 DEF Goto, Alone, Keeps, TypeOK, Calls
<1>4. \A s \in Steps, g \in 0..MaxGens :
        call' = [call EXCEPT ![c].step = s, ![c].reply = g] =>
            Alone(c) /\ Keeps(c) /\ call'[c].step = s /\ call'[c].reply = g
  BY <1>1 DEF Alone, Keeps, TypeOK, Calls
<1> QED  BY <1>2, <1>3, <1>4

LEMMA StepsAre ==
    /\ "idle" \in Steps /\ "exchanging" \in Steps /\ "connected" \in Steps
    /\ "waiting" \in Steps /\ "sending" \in Steps /\ "renewed" \in Steps
    /\ "reauth" \in Steps /\ "revoking" \in Steps /\ "forgetting" \in Steps
BY DEF Steps

\* What a thread has is of the right kind.
LEMMA CallTypes ==
    ASSUME TypeOK, NEW c \in Threads
    PROVE  /\ call[c].account \in Accounts /\ call[c].now \in Nat
           /\ call[c].tokens \in TokenSets /\ call[c].reply \in 0..MaxGens
           /\ call[c].tokens.auth \in 0..MaxAuths /\ call[c].tokens.gen \in 0..MaxGens
           /\ call[c].tokens.expires \in Nat /\ call[c].tokens.until \in Nat
BY DEF TypeOK, Calls, TokenSets

\* Whoever holds an authorisation holds one that was begun.
LEMMA HeldIsBegun ==
    ASSUME TypeOK, ForItsAccount, NEW c \in Threads, Holding(c)
    PROVE  /\ call[c].tokens.auth \in Auths /\ call[c].tokens.auth <= begun
           /\ grants[call[c].tokens.auth].account = call[c].account
           /\ call[c].tokens.auth # 0
BY DEF TypeOK, Auths, ForItsAccount

LEMMA BeginDoes ==
    ASSUME TypeOK, NEW c \in Threads, NEW a \in Accounts, Begin(c, a)
    PROVE  /\ begun' = begun + 1 /\ begun' \in Auths
           /\ \A s \in Auths : s # begun' => grants'[s] = grants[s]
           /\ grants'[begun'].account = a
           /\ grants'[begun'].honoured = grants[begun'].honoured
           /\ grants'[begun'].ends = grants[begun'].ends
           /\ \A s \in Auths : s # begun' /\ pending'[s].held => pending'[s] = pending[s]
           /\ pending'[begun'].account = a
           /\ UNCHANGED <<stored, lock, call, redeemed, hurt, platform, clock>>
<1>1. begun' = begun + 1 /\ begun' \in Auths
  BY DEF Begin, TypeOK, Auths
<1>2. UNCHANGED <<stored, lock, call, redeemed, hurt, platform, clock>>
  BY DEF Begin, rest
<1>3. \A s \in Auths : s # begun' => grants'[s] = grants[s]
  BY DEF Begin, TypeOK
<1>4. /\ grants'[begun'].account = a
      /\ grants'[begun'].honoured = grants[begun'].honoured
      /\ grants'[begun'].ends = grants[begun'].ends
  BY <1>1 DEF Begin, TypeOK
<1>5. \A s \in Auths : s # begun' /\ pending'[s].held => pending'[s] = pending[s]
  BY DEF Begin, Swept, NotPending
<1>6. pending'[begun'].account = a
  BY <1>1 DEF Begin, Swept
<1> QED  BY <1>1, <1>2, <1>3, <1>4, <1>5, <1>6

LEMMA CompleteDoes ==
    ASSUME TypeOK, NEW c \in Threads, NEW s \in Auths, Complete(c, s)
    PROVE  /\ UNCHANGED <<stored, begun, lock, grants, redeemed, hurt, platform, clock>>
           /\ \A u \in Auths : pending'[u].held => pending'[u] = pending[u]
           /\ Alone(c)
           /\ call[c].step = "idle"
           /\ \/ call'[c] = call[c]
              \/ /\ call'[c].step = "exchanging" /\ call'[c].tokens.auth = s
                 /\ call'[c].account = pending[s].account /\ call'[c].now = clock
                 /\ pending[s].held /\ ~pending'[s].held /\ s <= begun
<1>1. UNCHANGED <<stored, begun, lock, grants, redeemed, hurt, platform, clock>>
  BY DEF Complete, platforms, rest
<1>2. \A u \in Auths : pending'[u].held => pending'[u] = pending[u]
  BY DEF Complete, Swept, NotPending
<1>3. call[c].step = "idle"
  BY DEF Complete, Asked, At
<1>4. CASE UNCHANGED call
  BY <1>1, <1>2, <1>3, <1>4 DEF Alone
<1>5. CASE ~UNCHANGED call
  <2>1. /\ pending[s].held /\ s <= begun /\ ~pending'[s].held
        /\ call' = [call EXCEPT ![c] = Doing("exchanging", pending[s].account, clock, Only(s))]
    BY <1>5 DEF Complete, Swept, NotPending, PendingConnections, TypeOK
  <2>2. Only(s) \in TokenSets /\ pending[s].account \in Accounts /\ clock \in Nat
    BY RestTypes DEF TypeOK, PendingConnections, Auths
  <2>3. /\ Alone(c) /\ call'[c].step = "exchanging" /\ call'[c].account = pending[s].account
        /\ call'[c].now = clock /\ call'[c].tokens = Only(s)
    BY <2>1, <2>2 DEF Doing, Alone, TypeOK
  <2>4. Only(s).auth = s
    BY DEF Only
  <2> QED  BY <1>1, <1>2, <1>3, <2>1, <2>3, <2>4
<1> QED  BY <1>4, <1>5

LEMMA ListDoes ==
    ASSUME TypeOK, NEW c \in Threads, ListPending(c) \/ \E s \in Auths : Abandon(c, s)
    PROVE  /\ UNCHANGED <<stored, begun, lock, call, grants, redeemed, hurt, platform, clock>>
           /\ \A u \in Auths : pending'[u].held => pending'[u] = pending[u]
<1>1. CASE ListPending(c)
  BY <1>1 DEF ListPending, Swept, NotPending, platforms, rest
<1>2. ASSUME NEW s \in Auths, Abandon(c, s)
      PROVE  /\ UNCHANGED <<stored, begun, lock, call, grants, redeemed, hurt, platform, clock>>
             /\ \A u \in Auths : pending'[u].held => pending'[u] = pending[u]
  BY <1>2 DEF Abandon, NotPending, platforms, rest, TypeOK
<1> QED  BY <1>1, <1>2

LEMMA ExchangeDoes ==
    ASSUME TypeOK, ForItsAccount, NEW c \in Threads, Exchange(c),
           NEW s \in Auths, s = call[c].tokens.auth
    PROVE  /\ UNCHANGED <<stored, pending, begun, lock, hurt, platform, clock>>
           /\ Alone(c)
           /\ call[c].step = "exchanging"
           /\ \A u \in Auths : u # s => grants'[u] = grants[u] /\ redeemed'[u] = redeemed[u]
           /\ redeemed[s] # 2 => redeemed'[s] = redeemed[s] + 1
           /\ grants'[s].account = grants[s].account
           /\ \/ /\ redeemed[s] = 0
                 /\ grants'[s].honoured = {1}
                 /\ grants'[s].ends = Ends(grants[s].account, clock)
                 /\ \/ Keeps(c) /\ call'[c].step = "connected"
                    \/ call'[c].step = "idle"
              \/ grants' = grants /\ call'[c].step = "idle"
<1>1. UNCHANGED <<stored, pending, begun, lock, hurt, platform, clock>>
  BY DEF Exchange, manager, given
<1>2. call[c].step = "exchanging"
  BY DEF Exchange, At
<1>3. redeemed' = [redeemed EXCEPT ![s] = IF redeemed[s] = 2 THEN 2 ELSE redeemed[s] + 1]
  BY DEF Exchange
<1>4. \/ /\ redeemed[s] = 0
         /\ grants' = [grants EXCEPT ![s] = Granted(s, {1}, 1)]
         /\ Goto(c, "connected") \/ Return(c)
      \/ grants' = grants /\ Return(c)
  BY DEF Exchange
<1>5. \A u \in Auths : u # s => redeemed'[u] = redeemed[u]
  BY <1>3 DEF TypeOK
<1>6. redeemed[s] # 2 => redeemed'[s] = redeemed[s] + 1
  BY <1>3 DEF TypeOK
<1>7. Goto(c, "connected") => Alone(c) /\ Keeps(c) /\ call'[c].step = "connected"
  BY Moves, StepsAre
<1>8. Return(c) => Alone(c) /\ call'[c].step = "idle"
  BY Moves
<1>9. CASE grants' = grants /\ Return(c)
  BY <1>1, <1>2, <1>5, <1>6, <1>8, <1>9
<1>10. CASE /\ redeemed[s] = 0
            /\ grants' = [grants EXCEPT ![s] = Granted(s, {1}, 1)]
            /\ Goto(c, "connected") \/ Return(c)
  <2>1. grants'[s] = Granted(s, {1}, 1) /\ \A u \in Auths : u # s => grants'[u] = grants[u]
    BY <1>10 DEF TypeOK
  <2>2. /\ grants'[s].account = grants[s].account /\ grants'[s].honoured = {1}
        /\ grants'[s].ends = Ends(grants[s].account, clock)
    BY <2>1 DEF Granted
  <2> QED  BY <1>1, <1>2, <1>5, <1>6, <1>7, <1>8, <1>10, <2>1, <2>2
<1> QED  BY <1>4, <1>9, <1>10

LEMMA InstallDoes ==
    ASSUME TypeOK, NEW c \in Threads, Install(c)
    PROVE  /\ UNCHANGED <<pending, begun, lock, grants, redeemed, hurt, platform, clock>>
           /\ Alone(c)
           /\ call[c].step = "connected" /\ call'[c].step = "idle"
           /\ \A a \in Accounts : a # call[c].account => stored'[a] = stored[a]
           /\ stored'[call[c].account].auth = call[c].tokens.auth
           /\ stored'[call[c].account].gen = 1
           /\ LET p == platform[call[c].account] IN
                /\ stored'[call[c].account].expires = call[c].now + AccessTtl[p]
                /\ stored'[call[c].account].until = call[c].now + GraceOf[p]
<1>1. call[c].account \in Accounts
  BY CallTypes
<1>2. Return(c)
  BY DEF Install
<1>3. Alone(c) /\ call'[c].step = "idle"
  BY <1>2, Moves
<1>4. stored'[call[c].account] = Parsed(call[c].account, call[c].tokens.auth, 1, call[c].now)
  BY <1>1 DEF Install, Put, TypeOK
<1>5. /\ stored'[call[c].account].auth = call[c].tokens.auth
      /\ stored'[call[c].account].gen = 1
      /\ LET p == platform[call[c].account] IN
           /\ stored'[call[c].account].expires = call[c].now + AccessTtl[p]
           /\ stored'[call[c].account].until = call[c].now + GraceOf[p]
  BY <1>4 DEF Parsed
<1> QED  BY <1>1, <1>3, <1>5 DEF Install, Put, TypeOK, At, manager, platforms, rest

LEMMA LookDoes ==
    ASSUME TypeOK, NEW c \in Threads, NEW a \in Accounts, Look(c, a)
    PROVE  /\ UNCHANGED <<stored, pending, begun, lock, grants, redeemed, hurt, platform, clock>>
           /\ Alone(c)
           /\ call[c].step = "idle"
           /\ call'[c].account = a /\ call'[c].now = clock /\ call'[c].tokens = stored[a]
           /\ \/ Stored(a) /\ call'[c].step = "waiting"
              \/ ~Stored(a) /\ call'[c].step = "reauth"
<1>1. UNCHANGED <<stored, pending, begun, lock, grants, redeemed, hurt, platform, clock>>
  BY DEF Look, manager, platforms, rest
<1>2. call[c].step = "idle"
  BY DEF Look, Asked, At
<1>3. stored[a] \in TokenSets /\ clock \in Nat
  BY DEF TypeOK
<1>4. CASE Stored(a)
  <2>1. call' = [call EXCEPT ![c] = Doing("waiting", a, clock, stored[a])]
    BY <1>4 DEF Look
  <2> QED  BY <1>1, <1>2, <1>3, <1>4, <2>1 DEF Doing, Alone, TypeOK
<1>5. CASE ~Stored(a)
  <2>1. call' = [call EXCEPT ![c] = Doing("reauth", a, clock, stored[a])]
    BY <1>5 DEF Look
  <2> QED  BY <1>1, <1>2, <1>3, <1>5, <2>1 DEF Doing, Alone, TypeOK
<1> QED  BY <1>4, <1>5

LEMMA EnterDoes ==
    ASSUME TypeOK, NEW c \in Threads, Enter(c), NEW t, t = Current(c)
    PROVE  /\ UNCHANGED <<stored, pending, begun, grants, redeemed, platform, clock>>
           /\ Alone(c)
           /\ t \in TokenSets
           /\ call[c].step = "waiting"
           /\ lock[ProcessOf[c]][call[c].account] = Nobody
           /\ \/ /\ call'[c].step = "idle" /\ lock' = lock /\ hurt' = hurt
              \/ /\ call'[c].step = "reauth" /\ call'[c].account = call[c].account
                 /\ call'[c].tokens = t /\ ~CanRefresh(t, call[c].now)
                 /\ lock' = lock /\ hurt' = hurt
              \/ /\ call'[c].step = "sending" /\ call'[c].account = call[c].account
                 /\ call'[c].now = call[c].now
                 /\ call'[c].tokens = t /\ t.gen # 0
                 /\ Take(c)
                 /\ hurt \subseteq hurt' /\ hurt' \subseteq hurt \union {t.auth}
                 /\ Overlaps(c, t) \/ ~Stored(call[c].account) => t.auth \in hurt'
<1>1. UNCHANGED <<stored, pending, begun, grants, redeemed, platform, clock>>
  BY DEF Enter, manager, rest
<1>2. call[c].step = "waiting" /\ lock[ProcessOf[c]][call[c].account] = Nobody
  BY DEF Enter, At, Free
<1>3. t \in TokenSets /\ call[c].account \in Accounts /\ call[c].now \in Nat
  BY CallTypes DEF Current, TypeOK
<1>4. \/ Return(c) /\ lock' = lock /\ hurt' = hurt
      \/ /\ ~CanRefresh(t, call[c].now)
         /\ call' = [call EXCEPT ![c] = Doing("reauth", call[c].account, call[c].now, t)]
         /\ lock' = lock /\ hurt' = hurt
      \/ /\ CanRefresh(t, call[c].now)
         /\ call' = [call EXCEPT ![c] = Doing("sending", call[c].account, call[c].now, t)]
         /\ Take(c)
         /\ hurt' = IF Overlaps(c, t) \/ ~Stored(call[c].account)
                    THEN hurt \union {t.auth} ELSE hurt
  BY DEF Enter, TypeOK
<1>5. CASE Return(c) /\ lock' = lock /\ hurt' = hurt
  BY <1>1, <1>2, <1>3, <1>5, Moves
<1>6. CASE /\ ~CanRefresh(t, call[c].now)
           /\ call' = [call EXCEPT ![c] = Doing("reauth", call[c].account, call[c].now, t)]
           /\ lock' = lock /\ hurt' = hurt
  <2>1. Alone(c) /\ call'[c].step = "reauth" /\ call'[c].account = call[c].account
        /\ call'[c].tokens = t
    BY <1>3, <1>6 DEF Doing, Alone, TypeOK
  <2> QED  BY <1>1, <1>2, <1>3, <1>6, <2>1
<1>7. CASE /\ CanRefresh(t, call[c].now)
           /\ call' = [call EXCEPT ![c] = Doing("sending", call[c].account, call[c].now, t)]
           /\ Take(c)
           /\ hurt' = IF Overlaps(c, t) \/ ~Stored(call[c].account)
                      THEN hurt \union {t.auth} ELSE hurt
  <2>1. Alone(c) /\ call'[c].step = "sending" /\ call'[c].account = call[c].account
        /\ call'[c].tokens = t /\ call'[c].now = call[c].now
    BY <1>3, <1>7 DEF Doing, Alone, TypeOK
  <2>2. t.gen # 0
    BY <1>7 DEF CanRefresh
  <2> QED  BY <1>1, <1>2, <1>3, <1>7, <2>1, <2>2
<1> QED  BY <1>4, <1>5, <1>6, <1>7

LEMMA RenewDoes ==
    ASSUME TypeOK, ForItsAccount, NEW c \in Threads, Renew(c),
           NEW s \in Auths, s = call[c].tokens.auth
    PROVE  /\ UNCHANGED <<stored, pending, begun, redeemed, platform, clock>>
           /\ Alone(c)
           /\ call[c].step = "sending"
           /\ Honours(call[c].tokens)
           /\ \A u \in Auths : u # s => grants'[u] = grants[u]
           /\ grants'[s].account = grants[s].account
           /\ \/ /\ Keeps(c) /\ call'[c].step = "renewed" /\ lock' = lock /\ hurt' = hurt
                 /\ \/ /\ call'[c].reply = 0 /\ grants' = grants
                       /\ platform[call[c].account] # "instagram"
                    \/ /\ call'[c].reply # 0 /\ call'[c].reply \in grants'[s].honoured
                       /\ grants'[s].ends = Ends(grants[s].account, clock)
              \/ /\ call'[c].step = "idle" /\ Release(c)
                 /\ hurt \subseteq hurt' /\ hurt' \subseteq hurt \union {s}
                 /\ s \notin hurt' => grants[s].honoured \subseteq grants'[s].honoured
                 /\ grants'[s].ends \in {grants[s].ends, Ends(grants[s].account, clock)}
<1> DEFINE t == call[c].tokens
           g == grants[s].last + 1
<1>1. UNCHANGED <<stored, pending, begun, redeemed, platform, clock>>
  BY DEF Renew, manager, given
<1>2. call[c].step = "sending" /\ Honours(call[c].tokens)
  BY DEF Renew, At
<1>3. PICK anew, retires \in BOOLEAN :
        /\ platform[call[c].account] = "instagram" => anew
        /\ retires => anew
        /\ anew => g <= MaxGens
        /\ grants' = IF anew
                     THEN [grants EXCEPT ![s] = Granted(s,
                             (IF retires THEN grants[s].honoured \ {t.gen}
                              ELSE grants[s].honoured) \union {g}, g)]
                     ELSE grants
        /\ \/ /\ call' = [call EXCEPT ![c].step = "renewed", ![c].reply = IF anew THEN g ELSE 0]
              /\ UNCHANGED <<lock, hurt, faults>>
           \/ /\ Fault /\ Return(c) /\ Release(c)
              /\ hurt' = IF retires THEN hurt \union {s} ELSE hurt
  BY DEF Renew, TypeOK
<1>4. anew => g \in 1..MaxGens
  BY <1>3 DEF TypeOK
<1> DEFINE h == (IF retires THEN grants[s].honoured \ {t.gen} ELSE grants[s].honoured) \union {g}
<1>5. anew => /\ \A u \in Auths : u # s => grants'[u] = grants[u]
              /\ grants'[s] = Granted(s, h, g)
  <2> HIDE DEF h, g
  <2>1. anew => grants' = [grants EXCEPT ![s] = Granted(s, h, g)]
    BY <1>3 DEF h, g
  <2> QED  BY <2>1 DEF TypeOK
<1>6. anew => /\ grants'[s].account = grants[s].account /\ grants'[s].honoured = h
              /\ grants'[s].ends = Ends(grants[s].account, clock)
  BY <1>5 DEF Granted
<1>7. ~anew => grants' = grants
  BY <1>3
<1>8. /\ \A u \in Auths : u # s => grants'[u] = grants[u]
      /\ grants'[s].account = grants[s].account
  BY <1>5, <1>6, <1>7
<1>9. CASE /\ call' = [call EXCEPT ![c].step = "renewed", ![c].reply = IF anew THEN g ELSE 0]
           /\ UNCHANGED <<lock, hurt, faults>>
  <2> DEFINE v == IF anew THEN g ELSE 0
  <2>1. v \in 0..MaxGens
    BY <1>4
  <2> HIDE DEF v, g
  <2>2. call' = [call EXCEPT ![c].step = "renewed", ![c].reply = v]
    BY <1>9 DEF v
  <2>3. Alone(c) /\ Keeps(c) /\ call'[c].step = "renewed" /\ call'[c].reply = v
    BY <2>1, <2>2, Moves, StepsAre
  <2>4. CASE anew
    <3>1. v = g /\ g # 0 /\ g \in h
      BY <1>4, <2>4 DEF v, g
    <3> QED  BY <1>1, <1>2, <1>6, <1>8, <1>9, <2>3, <2>4, <3>1
  <2>5. CASE ~anew
    <3>1. v = 0
      BY <2>5 DEF v
    <3>2. platform[call[c].account] # "instagram"
      BY <1>3, <2>5
    <3> QED  BY <1>1, <1>2, <1>7, <1>8, <1>9, <2>3, <2>5, <3>1, <3>2
  <2> QED  BY <2>4, <2>5
<1>10. CASE /\ Fault /\ Return(c) /\ Release(c)
            /\ hurt' = IF retires THEN hurt \union {s} ELSE hurt
  <2>1. Alone(c) /\ call'[c].step = "idle"
    BY <1>10, Moves
  <2>2. s \notin hurt' => grants[s].honoured \subseteq grants'[s].honoured
    BY <1>6, <1>7, <1>10
  <2>3. grants'[s].ends \in {grants[s].ends, Ends(grants[s].account, clock)}
    BY <1>6, <1>7
  <2> HIDE DEF h, g
  <2> QED  BY <1>1, <1>2, <1>8, <1>10, <2>1, <2>2, <2>3
<1> QED  BY <1>3, <1>9, <1>10

LEMMA RefuseDoes ==
    ASSUME TypeOK, NEW c \in Threads, Refuse(c)
    PROVE  /\ UNCHANGED <<stored, pending, begun, grants, redeemed, hurt, platform, clock>>
           /\ Alone(c) /\ Keeps(c) /\ Release(c)
           /\ call[c].step = "sending" /\ call'[c].step = "reauth"
           /\ ~Honours(call[c].tokens)
BY Moves, StepsAre DEF Refuse, At, manager, platforms, rest

LEMMA FailsDoes ==
    ASSUME TypeOK, NEW c \in Threads, RefreshFails(c)
    PROVE  /\ UNCHANGED <<stored, pending, begun, grants, redeemed, hurt, platform, clock>>
           /\ Alone(c) /\ Release(c)
           /\ call[c].step = "sending" /\ call'[c].step = "idle"
BY Moves DEF RefreshFails, At, manager, platforms, rest

LEMMA FreshIs ==
    ASSUME TypeOK, NEW c \in Threads
    PROVE  /\ Fresh(c).auth = call[c].tokens.auth
           /\ Fresh(c).expires = call[c].now + AccessTtl[platform[call[c].account]]
           /\ call[c].reply # 0 =>
                /\ Fresh(c).gen = call[c].reply
                /\ Fresh(c).until = call[c].now + GraceOf[platform[call[c].account]]
           /\ call[c].reply = 0 =>
                /\ Fresh(c).gen = call[c].tokens.gen /\ Fresh(c).until = call[c].tokens.until
BY DEF Fresh, Parsed

LEMMA StoreDoes ==
    ASSUME TypeOK, NEW c \in Threads, StoreFresh(c)
    PROVE  /\ UNCHANGED <<pending, begun, grants, redeemed, hurt, platform, clock>>
           /\ Alone(c) /\ Release(c)
           /\ call[c].step = "renewed" /\ call'[c].step = "idle"
           /\ \A a \in Accounts : a # call[c].account => stored'[a] = stored[a]
           /\ stored'[call[c].account].auth = call[c].tokens.auth
           /\ stored'[call[c].account].expires = call[c].now + AccessTtl[platform[call[c].account]]
           /\ call[c].reply # 0 =>
                /\ stored'[call[c].account].gen = call[c].reply
                /\ stored'[call[c].account].until =
                        call[c].now + GraceOf[platform[call[c].account]]
           /\ call[c].reply = 0 =>
                /\ stored'[call[c].account].gen = call[c].tokens.gen
                /\ stored'[call[c].account].until = call[c].tokens.until
<1>1. call[c].account \in Accounts
  BY CallTypes
<1>2. Return(c)
  BY DEF StoreFresh
<1>3. Alone(c) /\ call'[c].step = "idle"
  BY <1>2, Moves
<1>4. stored'[call[c].account] = Fresh(c)
  BY <1>1 DEF StoreFresh, Put, TypeOK
<1> QED  BY <1>1, <1>3, <1>4, FreshIs DEF StoreFresh, Put, TypeOK, At, manager, platforms, rest

LEMMA ToldDoes ==
    ASSUME TypeOK, NEW c \in Threads, Told(c)
    PROVE  /\ UNCHANGED <<stored, pending, begun, lock, grants, redeemed, hurt, platform, clock>>
           /\ Alone(c)
           /\ call[c].step = "reauth" /\ call'[c].step = "idle"
BY Moves DEF Told, At, manager, platforms, rest

LEMMA DisconnectDoes ==
    ASSUME TypeOK, NEW c \in Threads, NEW a \in Accounts, Disconnect(c, a)
    PROVE  /\ UNCHANGED <<stored, pending, begun, lock, grants, redeemed, hurt, platform, clock>>
           /\ Alone(c)
           /\ call[c].step = "idle" /\ call'[c].step \in {"forgetting", "revoking"}
           /\ call'[c].tokens.auth = stored[a].auth /\ Stored(a)
<1>1. \E x \in {"forgetting", "revoking"} :
        call' = [call EXCEPT ![c] = Doing(x, a, 0, Only(stored[a].auth))]
  BY DEF Disconnect
<1>2. Only(stored[a].auth) \in TokenSets /\ Only(stored[a].auth).auth = stored[a].auth
  BY RestTypes DEF Only, TypeOK, TokenSets
<1>3. /\ Alone(c) /\ call'[c].step \in {"forgetting", "revoking"}
      /\ call'[c].tokens = Only(stored[a].auth)
  BY <1>1, <1>2 DEF Doing, Alone, TypeOK
<1> QED  BY <1>2, <1>3 DEF Disconnect, Asked, At, manager, platforms, rest

LEMMA RevokeDoes ==
    ASSUME TypeOK, ForItsAccount, NEW c \in Threads, Revoke(c),
           NEW s \in Auths, s = call[c].tokens.auth
    PROVE  /\ UNCHANGED <<stored, pending, begun, lock, redeemed, platform, clock>>
           /\ Alone(c)
           /\ call[c].step = "revoking" /\ call'[c].step = "forgetting"
           /\ \A u \in Auths : u # s => grants'[u] = grants[u]
           /\ \A u \in Auths : grants'[u].account = grants[u].account /\ grants'[u].ends = grants[u].ends
           /\ hurt \subseteq hurt' /\ hurt' \subseteq hurt \union {s}
           /\ grants' = grants \/ s \in hurt'
<1>1. UNCHANGED <<stored, pending, begun, lock, redeemed, platform, clock>>
  BY DEF Revoke, manager, given
<1>2. Alone(c) /\ call'[c].step = "forgetting"
  BY Moves, StepsAre DEF Revoke
<1>3. \/ grants' = [grants EXCEPT ![s].honoured = {}] /\ hurt' = hurt \union {s}
      \/ grants' = grants /\ hurt' = hurt
  BY DEF Revoke
<1>4. grants \in [Auths -> GrantRows]
  BY DEF TypeOK, GrantRows
<1>5. /\ \A u \in Auths : u # s => grants'[u] = grants[u]
      /\ \A u \in Auths : grants'[u].account = grants[u].account /\ grants'[u].ends = grants[u].ends
  BY <1>3, <1>4 DEF GrantRows
<1> QED  BY <1>1, <1>2, <1>3, <1>5 DEF Revoke, At

LEMMA ForgetDoes ==
    ASSUME TypeOK, NEW c \in Threads, Forget(c)
    PROVE  /\ UNCHANGED <<pending, begun, lock, grants, redeemed, platform, clock>>
           /\ Alone(c)
           /\ call[c].step = "forgetting" /\ call'[c].step = "idle"
           /\ \A a \in Accounts : stored'[a] = stored[a] \/ stored'[a].auth = 0
           /\ hurt \subseteq hurt'
<1>1. \A a \in Accounts : stored'[a] = stored[a] \/ stored'[a].auth = 0
  BY DEF Forget, Put, NoTokens, Only, TypeOK
<1>2. Alone(c) /\ call'[c].step = "idle"
  BY Moves DEF Forget
<1> QED  BY <1>1, <1>2 DEF Forget, At, manager, rest

LEMMA WithdrawDoes ==
    ASSUME TypeOK, NEW s \in Auths, Withdraw(s)
    PROVE  /\ UNCHANGED <<stored, pending, begun, lock, call, redeemed, platform, clock>>
           /\ \A u \in Auths : u # s => grants'[u] = grants[u]
           /\ \A u \in Auths : grants'[u].account = grants[u].account /\ grants'[u].ends = grants[u].ends
           /\ hurt' = hurt \union {s}
<1>1. grants \in [Auths -> GrantRows]
  BY DEF TypeOK, GrantRows
<1>2. grants' = [grants EXCEPT ![s].honoured = {}]
  BY DEF Withdraw
<1>3. /\ \A u \in Auths : u # s => grants'[u] = grants[u]
      /\ \A u \in Auths : grants'[u].account = grants[u].account /\ grants'[u].ends = grants[u].ends
  BY <1>1, <1>2 DEF GrantRows
<1> QED  BY <1>3 DEF Withdraw, manager, given

LEMMA CrashDoes ==
    ASSUME TypeOK, NEW r \in Processes, Crash(r)
    PROVE  /\ UNCHANGED <<stored, begun, grants, redeemed, platform, clock>>
           /\ \A c \in Threads : IF ProcessOf[c] = r THEN call'[c].step = "idle"
                                                     ELSE call'[c] = call[c]
           /\ \A q \in Processes, a \in Accounts :
                lock'[q][a] = IF q = r THEN Nobody ELSE lock[q][a]
           /\ \A s \in Auths : pending'[s].held => pending'[s] = pending[s]
           /\ hurt \subseteq hurt'
           /\ \A c \in Threads :
                ProcessOf[c] = r /\ At(c, "renewed") /\ ~Honours(call[c].tokens)
                    => call[c].tokens.auth \in hurt'
<1>1. UNCHANGED <<stored, begun, grants, redeemed, platform, clock>>
  BY DEF Crash, given
<1>2. \A c \in Threads : IF ProcessOf[c] = r THEN call'[c].step = "idle"
                                             ELSE call'[c] = call[c]
  BY DEF Crash, Idle, Doing
<1>3. \A q \in Processes, a \in Accounts :
        lock'[q][a] = IF q = r THEN Nobody ELSE lock[q][a]
  BY DEF Crash, TypeOK
<1>4. \A s \in Auths : pending'[s].held => pending'[s] = pending[s]
  BY DEF Crash, NotPending
<1>5. /\ hurt \subseteq hurt'
      /\ \A c \in Threads :
           ProcessOf[c] = r /\ At(c, "renewed") /\ ~Honours(call[c].tokens)
               => call[c].tokens.auth \in hurt'
  BY DEF Crash
<1> QED  BY <1>1, <1>2, <1>3, <1>4, <1>5

LEMMA RestDoes ==
    ASSUME TypeOK, Tick \/ Quiet
    PROVE  /\ UNCHANGED <<stored, pending, begun, lock, call, grants, redeemed, hurt, platform>>
           /\ clock' \in Nat /\ clock <= clock'
BY DEF Tick, Quiet, vars, manager, platforms, TypeOK

-----------------------------------------------------------------------------
(* Whose authorisation it is.                                              *)

LEMMA ForItsAccountStep ==
    ASSUME TypeOK, ForItsAccount, Next
    PROVE  ForItsAccount'
<1> USE DEF Holding, At, Stored, Alone, Keeps
<1>a. begun \in 0..MaxAuths /\ \A s \in 1..begun : s \in Auths
  BY DEF TypeOK, Auths
<1>b. \A a \in Accounts : Stored(a) => stored[a].auth \in 1..begun /\ stored[a].auth \in Auths
  BY DEF TypeOK, TokenSets, Auths, ForItsAccount
\* Whoever gives up, or goes on with what it had.
<1>c. ASSUME NEW c \in Threads, UNCHANGED <<stored, begun, pending>>,
             \A s \in Auths : grants'[s].account = grants[s].account,
             Alone(c),
             \/ call'[c].step \in {"idle", "reauth", "forgetting"}
             \/ Keeps(c) /\ Holding(c) /\ Holding(c)' /\ call'[c].step # "revoking"
      PROVE  ForItsAccount'
  BY <1>a, <1>b, <1>c DEF ForItsAccount
<1>1. ASSUME NEW c \in Threads, NEW a \in Accounts, Begin(c, a)
      PROVE  ForItsAccount'
  BY <1>1, <1>a, <1>b, BeginDoes DEF ForItsAccount, Auths
<1>2. ASSUME NEW c \in Threads, NEW s \in Auths, Complete(c, s)
      PROVE  ForItsAccount'
  BY <1>2, CompleteDoes DEF ForItsAccount, Auths
<1>3. ASSUME NEW c \in Threads, ListPending(c) \/ \E s \in Auths : Abandon(c, s)
      PROVE  ForItsAccount'
  BY <1>3, ListDoes DEF ForItsAccount
<1>5. ASSUME NEW c \in Threads, Exchange(c)
      PROVE  ForItsAccount'
  <2>1. PICK s \in Auths : s = call[c].tokens.auth
    BY <1>5, <1>a DEF Exchange, ForItsAccount
  <2>2. \A u \in Auths : grants'[u].account = grants[u].account
    BY <1>5, <2>1, ExchangeDoes
  <2> QED  BY <1>5, <2>1, <2>2, <1>c, ExchangeDoes
<1>6. ASSUME NEW c \in Threads, Install(c)
      PROVE  ForItsAccount'
  BY <1>6, InstallDoes DEF ForItsAccount
<1>7. ASSUME NEW c \in Threads, NEW a \in Accounts, Look(c, a)
      PROVE  ForItsAccount'
  BY <1>7, <1>b, LookDoes DEF ForItsAccount
<1>8. ASSUME NEW c \in Threads, Enter(c)
      PROVE  ForItsAccount'
  <2>1. PICK t : t = Current(c)
    OBVIOUS
  <2>2. t.auth \in 1..begun /\ grants[t.auth].account = call[c].account
    <3>1. call[c].account \in Accounts /\ call[c].step = "waiting"
      BY <1>8, CallTypes DEF Enter
    <3> QED  BY <2>1, <3>1, <1>b DEF Current, ForItsAccount
  <2> QED  BY <1>8, <2>1, <2>2, EnterDoes DEF ForItsAccount
<1>9. ASSUME NEW c \in Threads, Renew(c)
      PROVE  ForItsAccount'
  <2>1. PICK s \in Auths : s = call[c].tokens.auth
    BY <1>9, <1>a DEF Renew, ForItsAccount
  <2>2. \A u \in Auths : grants'[u].account = grants[u].account
    BY <1>9, <2>1, RenewDoes
  <2> QED  BY <1>9, <2>1, <2>2, <1>c, RenewDoes
<1>10. ASSUME NEW c \in Threads, Refuse(c)
       PROVE  ForItsAccount'
  BY <1>10, <1>c, RefuseDoes
<1>11. ASSUME NEW c \in Threads, RefreshFails(c)
       PROVE  ForItsAccount'
  BY <1>11, <1>c, FailsDoes
<1>12. ASSUME NEW c \in Threads, Told(c)
       PROVE  ForItsAccount'
  BY <1>12, <1>c, ToldDoes
<1>13. ASSUME NEW c \in Threads, StoreFresh(c)
       PROVE  ForItsAccount'
  BY <1>13, StoreDoes DEF ForItsAccount
<1>14. ASSUME NEW c \in Threads, NEW a \in Accounts, Disconnect(c, a)
       PROVE  ForItsAccount'
  BY <1>14, DisconnectDoes DEF ForItsAccount
<1>15. ASSUME NEW c \in Threads, Revoke(c)
       PROVE  ForItsAccount'
  <2>1. PICK s \in Auths : s = call[c].tokens.auth
    BY <1>15, CallTypes DEF Revoke, ForItsAccount, Auths
  <2> QED  BY <1>15, <2>1, <1>c, RevokeDoes
<1>16. ASSUME NEW c \in Threads, Forget(c)
       PROVE  ForItsAccount'
  BY <1>16, ForgetDoes DEF ForItsAccount
<1>17. ASSUME NEW s \in Auths, Withdraw(s)
       PROVE  ForItsAccount'
  BY <1>17, <1>a, <1>b, WithdrawDoes DEF ForItsAccount
<1>18. ASSUME NEW r \in Processes, Crash(r)
       PROVE  ForItsAccount'
  BY <1>18, CrashDoes DEF ForItsAccount
<1>19. CASE Tick \/ Quiet
  BY <1>19, RestDoes DEF ForItsAccount
<1> QED
  BY <1>1, <1>2, <1>3, <1>5, <1>6, <1>7, <1>8, <1>9, <1>10, <1>11, <1>12,
     <1>13, <1>14, <1>15, <1>16, <1>17, <1>18, <1>19
  DEF Next, Connect, Refresh, Leave

-----------------------------------------------------------------------------
(* The locks.                                                              *)

\* Who is renewing an account in a process.
AtWork(r, a) == {c \in Threads : /\ ProcessOf[c] = r /\ call[c].account = a
                                 /\ call[c].step \in {"sending", "renewed"}}

LEMMA LocksAreInUseStep ==
    ASSUME TypeOK, ForItsAccount, LocksAreInUse, Next
    PROVE  LocksAreInUse'
<1> USE DEF Renewing, Alone, Keeps
<1>a. \A r \in Processes, a \in Accounts : AtWork(r, a) = {lock[r][a]} \ {Nobody}
  BY DEF LocksAreInUse, AtWork
<1>b. SUFFICES \A r \in Processes, a \in Accounts : AtWork(r, a)' = {lock'[r][a]} \ {Nobody}
  BY DEF LocksAreInUse, AtWork
\* Whoever neither starts nor stops renewing.
<1>c. ASSUME NEW c \in Threads, lock' = lock, Alone(c),
             \/ ~Renewing(c) /\ ~Renewing(c)'
             \/ Renewing(c) /\ Renewing(c)' /\ Keeps(c)
      PROVE  \A r \in Processes, a \in Accounts : AtWork(r, a)' = {lock'[r][a]} \ {Nobody}
  <2> TAKE r \in Processes, a \in Accounts
  <2>1. AtWork(r, a)' = AtWork(r, a)
    BY <1>c DEF AtWork
  <2> QED  BY <2>1, <1>a, <1>c
\* Whoever stops.
<1>d. ASSUME NEW c \in Threads, Release(c), Alone(c), Renewing(c), ~Renewing(c)'
      PROVE  \A r \in Processes, a \in Accounts : AtWork(r, a)' = {lock'[r][a]} \ {Nobody}
  <2> TAKE r \in Processes, a \in Accounts
  <2>1. call[c].account \in Accounts /\ ProcessOf[c] \in Processes
    BY CallTypes
  <2>2. AtWork(r, a)' = AtWork(r, a) \ {c}
    BY <1>d DEF AtWork
  <2>3. c \in AtWork(ProcessOf[c], call[c].account)
    BY <1>d DEF AtWork
  <2>4. CASE r = ProcessOf[c] /\ a = call[c].account
    <3>1. lock'[r][a] = Nobody
      BY <1>d, <2>1, <2>4 DEF Release, TypeOK
    <3>2. AtWork(r, a) = {lock[r][a]} \ {Nobody}
      BY <1>a
    <3> QED  BY <2>2, <2>3, <2>4, <3>1, <3>2
  <2>5. CASE ~(r = ProcessOf[c] /\ a = call[c].account)
    <3>1. lock'[r][a] = lock[r][a]
      BY <1>d, <2>1, <2>5 DEF Release, TypeOK
    <3>2. c \notin AtWork(r, a)
      BY <2>5 DEF AtWork
    <3> QED  BY <2>2, <3>1, <3>2, <1>a
  <2> QED  BY <2>4, <2>5
<1>1. ASSUME NEW c \in Threads, NEW a \in Accounts, Begin(c, a)
      PROVE  \A r \in Processes, b \in Accounts : AtWork(r, b)' = {lock'[r][b]} \ {Nobody}
  BY <1>1, <1>a, BeginDoes DEF AtWork
<1>2. ASSUME NEW c \in Threads, NEW s \in Auths, Complete(c, s)
      PROVE  \A r \in Processes, a \in Accounts : AtWork(r, a)' = {lock'[r][a]} \ {Nobody}
  BY <1>2, <1>c, CompleteDoes
<1>3. ASSUME NEW c \in Threads, ListPending(c) \/ \E s \in Auths : Abandon(c, s)
      PROVE  \A r \in Processes, a \in Accounts : AtWork(r, a)' = {lock'[r][a]} \ {Nobody}
  BY <1>3, <1>a, ListDoes DEF AtWork
<1>5. ASSUME NEW c \in Threads, Exchange(c)
      PROVE  \A r \in Processes, a \in Accounts : AtWork(r, a)' = {lock'[r][a]} \ {Nobody}
  <2>1. PICK s \in Auths : s = call[c].tokens.auth
    BY <1>5, HeldIsBegun DEF Exchange, Holding, At
  <2> QED  BY <1>5, <2>1, <1>c, ExchangeDoes
<1>6. ASSUME NEW c \in Threads, Install(c)
      PROVE  \A r \in Processes, a \in Accounts : AtWork(r, a)' = {lock'[r][a]} \ {Nobody}
  BY <1>6, <1>c, InstallDoes
<1>7. ASSUME NEW c \in Threads, NEW a \in Accounts, Look(c, a)
      PROVE  \A r \in Processes, b \in Accounts : AtWork(r, b)' = {lock'[r][b]} \ {Nobody}
  BY <1>7, <1>c, LookDoes
<1>8. ASSUME NEW c \in Threads, Enter(c)
      PROVE  \A r \in Processes, a \in Accounts : AtWork(r, a)' = {lock'[r][a]} \ {Nobody}
  <2>1. CASE lock' = lock /\ call'[c].step \in {"idle", "reauth"}
    BY <1>8, <2>1, <1>c, EnterDoes
  <2>2. CASE Take(c) /\ call'[c].step = "sending" /\ call'[c].account = call[c].account
    <3> TAKE r \in Processes, a \in Accounts
    <3>1. call[c].account \in Accounts /\ ProcessOf[c] \in Processes
      BY CallTypes
    <3>2. /\ Alone(c) /\ call[c].step = "waiting"
          /\ lock[ProcessOf[c]][call[c].account] = Nobody
      BY <1>8, EnterDoes
    <3>3. CASE r = ProcessOf[c] /\ a = call[c].account
      <4>1. AtWork(r, a) = {}
        BY <1>a, <3>2, <3>3
      <4>2. AtWork(r, a)' = AtWork(r, a) \union {c}
        BY <2>2, <3>2, <3>3 DEF AtWork
      <4>3. lock'[r][a] = c
        BY <2>2, <3>1, <3>3 DEF Take, TypeOK
      <4> QED  BY <4>1, <4>2, <4>3
    <3>4. CASE ~(r = ProcessOf[c] /\ a = call[c].account)
      <4>1. AtWork(r, a)' = AtWork(r, a)
        BY <2>2, <3>2, <3>4 DEF AtWork
      <4>2. lock'[r][a] = lock[r][a]
        BY <2>2, <3>1, <3>4 DEF Take, TypeOK
      <4> QED  BY <4>1, <4>2, <1>a
    <3> QED  BY <3>3, <3>4
  <2> QED  BY <1>8, <2>1, <2>2, EnterDoes
<1>9. ASSUME NEW c \in Threads, Renew(c)
      PROVE  \A r \in Processes, a \in Accounts : AtWork(r, a)' = {lock'[r][a]} \ {Nobody}
  <2>1. PICK s \in Auths : s = call[c].tokens.auth
    BY <1>9, HeldIsBegun DEF Renew, Holding, At
  <2> QED  BY <1>9, <2>1, <1>c, <1>d, RenewDoes
<1>10. ASSUME NEW c \in Threads, Refuse(c)
       PROVE  \A r \in Processes, a \in Accounts : AtWork(r, a)' = {lock'[r][a]} \ {Nobody}
  BY <1>10, <1>d, RefuseDoes
<1>11. ASSUME NEW c \in Threads, RefreshFails(c)
       PROVE  \A r \in Processes, a \in Accounts : AtWork(r, a)' = {lock'[r][a]} \ {Nobody}
  BY <1>11, <1>d, FailsDoes
<1>12. ASSUME NEW c \in Threads, Told(c)
       PROVE  \A r \in Processes, a \in Accounts : AtWork(r, a)' = {lock'[r][a]} \ {Nobody}
  BY <1>12, <1>c, ToldDoes
<1>13. ASSUME NEW c \in Threads, StoreFresh(c)
       PROVE  \A r \in Processes, a \in Accounts : AtWork(r, a)' = {lock'[r][a]} \ {Nobody}
  BY <1>13, <1>d, StoreDoes
<1>14. ASSUME NEW c \in Threads, NEW a \in Accounts, Disconnect(c, a)
       PROVE  \A r \in Processes, b \in Accounts : AtWork(r, b)' = {lock'[r][b]} \ {Nobody}
  BY <1>14, <1>c, DisconnectDoes
<1>15. ASSUME NEW c \in Threads, Revoke(c)
       PROVE  \A r \in Processes, a \in Accounts : AtWork(r, a)' = {lock'[r][a]} \ {Nobody}
  <2>1. PICK s \in Auths : s = call[c].tokens.auth
    BY <1>15, CallTypes DEF Revoke, ForItsAccount, Auths
  <2> QED  BY <1>15, <2>1, <1>c, RevokeDoes
<1>16. ASSUME NEW c \in Threads, Forget(c)
       PROVE  \A r \in Processes, a \in Accounts : AtWork(r, a)' = {lock'[r][a]} \ {Nobody}
  BY <1>16, <1>c, ForgetDoes
<1>17. ASSUME NEW s \in Auths, Withdraw(s)
       PROVE  \A r \in Processes, a \in Accounts : AtWork(r, a)' = {lock'[r][a]} \ {Nobody}
  BY <1>17, <1>a, WithdrawDoes DEF AtWork
<1>18. ASSUME NEW r \in Processes, Crash(r)
       PROVE  \A q \in Processes, a \in Accounts : AtWork(q, a)' = {lock'[q][a]} \ {Nobody}
  <2> TAKE q \in Processes, a \in Accounts
  <2>1. CASE q = r
    <3>1. AtWork(q, a)' = {} /\ lock'[q][a] = Nobody
      BY <1>18, <2>1, CrashDoes DEF AtWork
    <3> QED  BY <3>1
  <2>2. CASE q # r
    <3>1. AtWork(q, a)' = AtWork(q, a) /\ lock'[q][a] = lock[q][a]
      BY <1>18, <2>2, CrashDoes DEF AtWork
    <3> QED  BY <3>1, <1>a
  <2> QED  BY <2>1, <2>2
<1>19. CASE Tick \/ Quiet
  BY <1>19, <1>a, RestDoes DEF AtWork
<1> QED
  BY <1>1, <1>2, <1>3, <1>5, <1>6, <1>7, <1>8, <1>9, <1>10, <1>11, <1>12,
     <1>13, <1>14, <1>15, <1>16, <1>17, <1>18, <1>19
  DEF Next, Connect, Refresh, Leave

-----------------------------------------------------------------------------
(* Authorisations are used once.                                           *)

LEMMA SingleUseStep ==
    ASSUME TypeOK, ForItsAccount, SingleUse, Next
    PROVE  SingleUse'
<1> USE DEF At, Alone, Keeps
\* Whoever renews, gives up or disconnects: nothing new is heard.
<1>c. ASSUME NEW c \in Threads, UNCHANGED <<begun, redeemed>>,
             \A s \in Auths : pending'[s].held => pending[s].held,
             \A a \in Accounts : stored'[a].auth \in {0, stored[a].auth},
             Alone(c),
             \/ call'[c].step \in {"idle", "reauth", "forgetting", "revoking"}
             \/ /\ call'[c].step \in {"waiting", "sending", "renewed"}
                /\ \/ \E a \in Accounts : stored[a].auth = call'[c].tokens.auth
                   \/ /\ call[c].step \in {"waiting", "sending", "renewed"}
                      /\ call'[c].tokens.auth = call[c].tokens.auth
      PROVE  SingleUse'
  <2>1. \A s \in Auths : Unheard(s) => Unheard(s)'
    <3> TAKE s \in Auths
    <3>1. s # 0
      BY DEF Auths
    <3> QED  BY <1>c, <3>1 DEF Unheard
  <2>2. \A d \in Threads :
          call'[d].step \in {"exchanging", "connected"} =>
            call'[d] = call[d] /\ call[d].tokens.auth \in Auths
    BY <1>c, HeldIsBegun DEF Holding
  <2> QED  BY <1>c, <2>1, <2>2 DEF SingleUse
<1>1. ASSUME NEW c \in Threads, NEW a \in Accounts, Begin(c, a)
      PROVE  SingleUse'
  <2>1. \A d \in Threads : call[d].step \in {"exchanging", "connected"} =>
          call[d].tokens.auth \in Auths /\ call[d].tokens.auth <= begun
    BY HeldIsBegun DEF Holding
  <2>2. begun \in Nat /\ \A s \in Auths : s \in Nat
    BY DEF TypeOK, Auths
  <2>3. /\ begun' = begun + 1 /\ begun' \in Auths
        /\ \A s \in Auths : s # begun' /\ pending'[s].held => pending[s].held
        /\ UNCHANGED <<stored, call, redeemed>>
    BY <1>1, BeginDoes
  <2>4. \A s \in Auths : Unheard(s)' = Unheard(s)
    BY <2>3 DEF Unheard
  <2>5. redeemed[begun'] = 0
    BY <2>2, <2>3 DEF SingleUse
  <2>6. \A s \in Auths :
          /\ redeemed'[s] <= 1
          /\ s > begun' => redeemed'[s] = 0
          /\ redeemed'[s] = 0 => Unheard(s)'
          /\ pending'[s].held => redeemed'[s] = 0
    BY <2>2, <2>3, <2>4, <2>5 DEF SingleUse
  <2>7. \A d \in Threads : call'[d].step = "exchanging" =>
          redeemed'[call'[d].tokens.auth] = 0 /\ ~pending'[call'[d].tokens.auth].held
    <3> TAKE d \in Threads
    <3> HAVE call'[d].step = "exchanging"
    <3>1. call'[d] = call[d] /\ call[d].tokens.auth \in Auths /\ call[d].tokens.auth # begun'
      BY <2>1, <2>2, <2>3
    <3> QED  BY <2>3, <3>1 DEF SingleUse
  <2>8. \A d \in Threads : call'[d].step = "connected" =>
          redeemed'[call'[d].tokens.auth] = 1 /\ Unheard(call[d].tokens.auth)'
    BY <2>1, <2>3 DEF SingleUse, Unheard
  <2> QED  BY <2>3, <2>6, <2>7, <2>8 DEF SingleUse
<1>2. ASSUME NEW c \in Threads, NEW s \in Auths, Complete(c, s)
      PROVE  SingleUse'
  <2>1. /\ UNCHANGED <<stored, begun, redeemed>>
        /\ \A u \in Auths : pending'[u].held => pending[u].held
        /\ Alone(c) /\ call[c].step = "idle"
    BY <1>2, CompleteDoes
  <2>2. CASE call'[c] = call[c]
    BY <1>c, <2>1, <2>2
  <2>3. CASE /\ call'[c].step = "exchanging" /\ call'[c].tokens.auth = s
             /\ pending[s].held /\ ~pending'[s].held
    <3>1. redeemed[s] = 0
      BY <2>3 DEF SingleUse
    <3>2. \A d \in Threads : call[d].step \in {"exchanging", "connected"} =>
            call[d].tokens.auth # s /\ call[d].tokens.auth \in Auths
      BY <2>3, <3>1, HeldIsBegun DEF SingleUse, Holding
    <3>3. \A u \in Auths : Unheard(u) => Unheard(u)'
      BY <2>1, <2>3 DEF Unheard
    <3> QED  BY <2>1, <2>3, <3>1, <3>2, <3>3 DEF SingleUse
  <2> QED  BY <1>2, <2>2, <2>3, CompleteDoes
<1>3. ASSUME NEW c \in Threads, ListPending(c) \/ \E s \in Auths : Abandon(c, s)
      PROVE  SingleUse'
  <2>1. \A u \in Auths : Unheard(u)' = Unheard(u)
    BY <1>3, ListDoes DEF Unheard
  <2>2. \A d \in Threads : call[d].step \in {"exchanging", "connected"} => call[d].tokens.auth \in Auths
    BY HeldIsBegun DEF Holding
  <2> QED  BY <1>3, <2>1, <2>2, ListDoes DEF SingleUse
<1>5. ASSUME NEW c \in Threads, Exchange(c)
      PROVE  SingleUse'
  <2>1. PICK s \in Auths : s = call[c].tokens.auth /\ s <= begun
    BY <1>5, HeldIsBegun DEF Exchange, Holding
  <2>2. /\ UNCHANGED <<stored, pending, begun>> /\ Alone(c) /\ call[c].step = "exchanging"
        /\ \A u \in Auths : u # s => redeemed'[u] = redeemed[u]
        /\ redeemed[s] # 2 => redeemed'[s] = redeemed[s] + 1
        /\ \/ Keeps(c) /\ call'[c].step = "connected"
           \/ call'[c].step = "idle"
    BY <1>5, <2>1, ExchangeDoes
  <2>3. redeemed[s] = 0 /\ ~pending[s].held
    BY <2>1, <2>2 DEF SingleUse
  <2>4. redeemed'[s] = 1
    BY <2>2, <2>3
  <2>5. \A u \in Auths : Unheard(u) => Unheard(u)'
    BY <2>2 DEF Unheard
  <2>6. \A d \in Threads : d # c /\ call[d].step \in {"exchanging", "connected"} =>
          call[d].tokens.auth # s /\ call[d].tokens.auth \in Auths
    BY <2>1, <2>2, HeldIsBegun DEF SingleUse, Holding
  <2>7. s \in Nat /\ begun \in Nat
    BY DEF TypeOK, Auths
  <2>8. \A u \in Auths :
          /\ redeemed'[u] <= 1
          /\ u > begun' => redeemed'[u] = 0
          /\ redeemed'[u] = 0 => Unheard(u)'
          /\ pending'[u].held => redeemed'[u] = 0
    BY <2>1, <2>2, <2>3, <2>4, <2>5, <2>7 DEF SingleUse
  <2>9. \A d \in Threads : call'[d].step = "exchanging" =>
          redeemed'[call'[d].tokens.auth] = 0 /\ ~pending'[call'[d].tokens.auth].held
    <3> TAKE d \in Threads
    <3> HAVE call'[d].step = "exchanging"
    <3>1. d # c /\ call'[d] = call[d]
      BY <2>2
    <3>2. call[d].tokens.auth # s /\ call[d].tokens.auth \in Auths
      BY <2>6, <3>1
    <3> QED  BY <2>2, <3>1, <3>2 DEF SingleUse
  <2>10. \A d \in Threads : call'[d].step = "connected" =>
          redeemed'[call'[d].tokens.auth] = 1 /\ Unheard(call[d].tokens.auth)'
    <3> TAKE d \in Threads
    <3> HAVE call'[d].step = "connected"
    <3>1. CASE d = c
      <4>1. call'[d].tokens.auth = s
        BY <2>1, <2>2, <3>1
      <4>2. Unheard(s)
        BY <2>3 DEF SingleUse
      <4> QED  BY <2>2, <2>4, <4>1, <4>2 DEF Unheard
    <3>2. CASE d # c
      <4>1. call'[d] = call[d] /\ call[d].tokens.auth # s /\ call[d].tokens.auth \in Auths
        BY <2>2, <2>6, <3>2
      <4>2. redeemed[call[d].tokens.auth] = 1 /\ Unheard(call[d].tokens.auth)
        BY <4>1 DEF SingleUse
      <4> QED  BY <2>2, <4>1, <4>2 DEF Unheard
    <3> QED  BY <3>1, <3>2
  <2>11. \A d, e \in Threads :
           call'[d].step \in {"exchanging", "connected"} /\ call'[e].step \in {"exchanging", "connected"}
           /\ call'[d].tokens.auth = call'[e].tokens.auth => d = e
    BY <2>1, <2>2, <2>6 DEF SingleUse
  <2> QED  BY <2>8, <2>9, <2>10, <2>11 DEF SingleUse
<1>6. ASSUME NEW c \in Threads, Install(c)
      PROVE  SingleUse'
  <2> DEFINE s == call[c].tokens.auth
  <2>1. stored'[call[c].account].auth = s
    BY <1>6, InstallDoes
  <2>2. /\ UNCHANGED <<pending, begun, redeemed>> /\ Alone(c)
        /\ call[c].step = "connected" /\ call'[c].step = "idle"
        /\ \A a \in Accounts : a # call[c].account => stored'[a] = stored[a]
    BY <1>6, InstallDoes
  <2>3. redeemed[s] = 1
    BY <2>2 DEF SingleUse
  <2>4. \A u \in Auths : u # s /\ Unheard(u) => Unheard(u)'
    BY <2>1, <2>2 DEF Unheard
  <2>5. \A d \in Threads : d # c /\ call[d].step \in {"exchanging", "connected"} =>
          call[d].tokens.auth # s /\ call[d].tokens.auth \in Auths
    BY <2>2, HeldIsBegun DEF SingleUse, Holding
  <2> QED  BY <2>2, <2>3, <2>4, <2>5 DEF SingleUse
<1>7. ASSUME NEW c \in Threads, NEW a \in Accounts, Look(c, a)
      PROVE  SingleUse'
  BY <1>7, <1>c, LookDoes
<1>8. ASSUME NEW c \in Threads, Enter(c)
      PROVE  SingleUse'
  <2>1. PICK t : t = Current(c)
    OBVIOUS
  <2>2. t.auth = call[c].tokens.auth \/ \E a \in Accounts : stored[a].auth = t.auth
    BY <2>1, CallTypes DEF Current
  <2> QED  BY <1>8, <2>1, <2>2, <1>c, EnterDoes
<1>9. ASSUME NEW c \in Threads, Renew(c)
      PROVE  SingleUse'
  <2>1. PICK s \in Auths : s = call[c].tokens.auth
    BY <1>9, HeldIsBegun DEF Renew, Holding
  <2> QED  BY <1>9, <2>1, <1>c, RenewDoes
<1>10. ASSUME NEW c \in Threads, Refuse(c)
       PROVE  SingleUse'
  BY <1>10, <1>c, RefuseDoes
<1>11. ASSUME NEW c \in Threads, RefreshFails(c)
       PROVE  SingleUse'
  BY <1>11, <1>c, FailsDoes
<1>12. ASSUME NEW c \in Threads, Told(c)
       PROVE  SingleUse'
  BY <1>12, <1>c, ToldDoes
<1>13. ASSUME NEW c \in Threads, StoreFresh(c)
       PROVE  SingleUse'
  <2>1. stored'[call[c].account].auth = call[c].tokens.auth
    BY <1>13, StoreDoes
  <2>2. /\ UNCHANGED <<pending, begun, redeemed>> /\ Alone(c)
        /\ call[c].step = "renewed" /\ call'[c].step = "idle"
        /\ \A a \in Accounts : a # call[c].account => stored'[a] = stored[a]
    BY <1>13, StoreDoes
  <2>3. \A u \in Auths : Unheard(u) => Unheard(u)'
    BY <2>1, <2>2 DEF Unheard
  <2>4. \A d \in Threads : call[d].step \in {"exchanging", "connected"} => call[d].tokens.auth \in Auths
    BY HeldIsBegun DEF Holding
  <2> QED  BY <2>2, <2>3, <2>4 DEF SingleUse
<1>14. ASSUME NEW c \in Threads, NEW a \in Accounts, Disconnect(c, a)
       PROVE  SingleUse'
  BY <1>14, <1>c, DisconnectDoes
<1>15. ASSUME NEW c \in Threads, Revoke(c)
       PROVE  SingleUse'
  <2>1. PICK s \in Auths : s = call[c].tokens.auth
    BY <1>15, CallTypes DEF Revoke, ForItsAccount, Auths
  <2> QED  BY <1>15, <2>1, <1>c, RevokeDoes
<1>16. ASSUME NEW c \in Threads, Forget(c)
       PROVE  SingleUse'
  BY <1>16, <1>c, ForgetDoes
<1>17. ASSUME NEW s \in Auths, Withdraw(s)
       PROVE  SingleUse'
  BY <1>17, WithdrawDoes DEF SingleUse, Unheard
<1>18. ASSUME NEW r \in Processes, Crash(r)
       PROVE  SingleUse'
  <2>1. \A u \in Auths : Unheard(u) => Unheard(u)'
    BY <1>18, CrashDoes DEF Unheard
  <2>2. \A d \in Threads :
          call'[d].step \in {"exchanging", "connected"} =>
            call'[d] = call[d] /\ call[d].tokens.auth \in Auths
    BY <1>18, CrashDoes, HeldIsBegun DEF Holding
  <2> QED  BY <1>18, <2>1, <2>2, CrashDoes DEF SingleUse
<1>19. CASE Tick \/ Quiet
  BY <1>19, RestDoes DEF SingleUse, Unheard
<1> QED
  BY <1>1, <1>2, <1>3, <1>5, <1>6, <1>7, <1>8, <1>9, <1>10, <1>11, <1>12,
     <1>13, <1>14, <1>15, <1>16, <1>17, <1>18, <1>19
  DEF Next, Connect, Refresh, Leave

-----------------------------------------------------------------------------
(* Who renews what.                                                        *)

\* Two threads of a process cannot work on the same authorisation: it belongs
\* to one account, and that to one lock.
LEMMA OneOfAProcess ==
    ASSUME TypeOK, ForItsAccount, LocksAreInUse,
           NEW c \in Threads, Holding(c),
           lock[ProcessOf[c]][call[c].account] = Nobody,
           NEW d \in Threads, Renewing(d), call[d].tokens.auth = call[c].tokens.auth
                                          \/ call[d].account = call[c].account
    PROVE  ProcessOf[d] # ProcessOf[c]
<1>1. call[d].account = call[c].account
  BY HeldIsBegun DEF Holding, Renewing
<1>2. call[c].account \in Accounts /\ ProcessOf[c] \in Processes
  BY CallTypes
<1> QED  BY <1>1, <1>2 DEF LocksAreInUse, Renewing

\* What a thread finds under the lock is its account's.
LEMMA CurrentIs ==
    ASSUME TypeOK, ForItsAccount, NEW c \in Threads, Holding(c)
    PROVE  Current(c).auth \in Auths /\ grants[Current(c).auth].account = call[c].account
<1> DEFINE a == call[c].account
<1>1. a \in Accounts
  BY CallTypes
<1>2. CASE Stored(a)
  <2>1. stored[a].auth \in 0..MaxAuths /\ stored[a].auth # 0 /\ grants[stored[a].auth].account = a
    BY <1>1, <1>2 DEF TypeOK, TokenSets, ForItsAccount, Stored
  <2> QED  BY <1>2, <2>1 DEF Current, Auths
<1>3. CASE ~Stored(a)
  BY <1>3, HeldIsBegun DEF Current
<1> QED  BY <1>2, <1>3

LEMMA OneRenewalStep ==
    ASSUME TypeOK, ForItsAccount, LocksAreInUse, SingleUse, OneRenewal, Next
    PROVE  OneRenewal'
<1> USE DEF Renewing, Alone, Keeps, At
\* Whoever does not begin to renew, and stores nothing but a deletion.
<1>c. ASSUME NEW c \in Threads, Alone(c), hurt' = hurt \/ hurt \subseteq hurt',
             \A a \in Accounts : stored'[a] = stored[a] \/ stored'[a].auth = 0,
             ~Renewing(c)' \/ (Renewing(c) /\ Keeps(c))
      PROVE  OneRenewal'
  <2>1. \A d \in Threads : Renewing(d)' =>
          /\ Renewing(d)
          /\ call'[d].account = call[d].account /\ call'[d].tokens = call[d].tokens
          /\ call[d].account \in Accounts /\ call[d].tokens.auth # 0
    BY <1>c, CallTypes, HeldIsBegun DEF Holding
  <2> QED  BY <1>c, <2>1 DEF OneRenewal
<1>1. ASSUME NEW c \in Threads, NEW a \in Accounts, Begin(c, a)
      PROVE  OneRenewal'
  BY <1>1, BeginDoes DEF OneRenewal
<1>2. ASSUME NEW c \in Threads, NEW s \in Auths, Complete(c, s)
      PROVE  OneRenewal'
  BY <1>2, <1>c, CompleteDoes
<1>3. ASSUME NEW c \in Threads, ListPending(c) \/ \E s \in Auths : Abandon(c, s)
      PROVE  OneRenewal'
  BY <1>3, ListDoes DEF OneRenewal
<1>5. ASSUME NEW c \in Threads, Exchange(c)
      PROVE  OneRenewal'
  <2>1. PICK s \in Auths : s = call[c].tokens.auth
    BY <1>5, HeldIsBegun DEF Exchange, Holding
  <2> QED  BY <1>5, <2>1, <1>c, ExchangeDoes
<1>6. ASSUME NEW c \in Threads, Install(c)
      PROVE  OneRenewal'
  <2> DEFINE s == call[c].tokens.auth
  <2>1. /\ Alone(c) /\ call[c].step = "connected" /\ call'[c].step = "idle" /\ hurt' = hurt
        /\ \A a \in Accounts : a # call[c].account => stored'[a] = stored[a]
        /\ stored'[call[c].account].auth = s
    BY <1>6, InstallDoes
  <2>2. \A d \in Threads : Renewing(d) => call[d].tokens.auth # s
    BY <2>1 DEF SingleUse, Unheard
  <2>3. \A d \in Threads : Renewing(d)' =>
          Renewing(d) /\ call'[d] = call[d] /\ call[d].account \in Accounts
    BY <2>1, CallTypes
  <2> QED  BY <2>1, <2>2, <2>3 DEF OneRenewal
<1>7. ASSUME NEW c \in Threads, NEW a \in Accounts, Look(c, a)
      PROVE  OneRenewal'
  BY <1>7, <1>c, LookDoes
<1>8. ASSUME NEW c \in Threads, Enter(c)
      PROVE  OneRenewal'
  <2>1. PICK t : t = Current(c)
    OBVIOUS
  <2>2. /\ Alone(c) /\ hurt \subseteq hurt' /\ stored' = stored
        /\ call[c].step = "waiting"
        /\ lock[ProcessOf[c]][call[c].account] = Nobody
    BY <1>8, <2>1, EnterDoes
  <2>3. CASE call'[c].step \in {"idle", "reauth"}
    BY <2>2, <2>3, <1>c
  <2>4. CASE /\ call'[c].step = "sending" /\ call'[c].account = call[c].account
             /\ call'[c].tokens = t
             /\ Overlaps(c, t) \/ ~Stored(call[c].account) => t.auth \in hurt'
    <3>2. t.auth \in Auths /\ grants[t.auth].account = call[c].account
      BY <2>1, <2>2, CurrentIs DEF Holding
    <3>3. \A d \in Threads : Renewing(d) /\ call[d].tokens.auth = t.auth => t.auth \in hurt'
      <4> TAKE d \in Threads
      <4> HAVE Renewing(d) /\ call[d].tokens.auth = t.auth
      <4>1. call[d].account = call[c].account
        BY <3>2, HeldIsBegun DEF Holding
      <4>2. ProcessOf[d] # ProcessOf[c]
        BY <2>2, <4>1, OneOfAProcess DEF Holding
      <4>3. Overlaps(c, t)
        BY <4>2 DEF Overlaps
      <4> QED  BY <2>4, <4>3
    <3>4. t.auth \notin hurt' => t = stored[call[c].account]
      BY <2>1, <2>4 DEF Current
    <3>5. \A d \in Threads : d # c => call'[d] = call[d]
      BY <2>2
    <3> QED  BY <2>2, <2>4, <3>3, <3>4, <3>5 DEF OneRenewal
  <2> QED  BY <1>8, <2>1, <2>3, <2>4, EnterDoes
<1>9. ASSUME NEW c \in Threads, Renew(c)
      PROVE  OneRenewal'
  <2>1. PICK s \in Auths : s = call[c].tokens.auth
    BY <1>9, HeldIsBegun DEF Renew, Holding
  <2> QED  BY <1>9, <2>1, <1>c, RenewDoes
<1>10. ASSUME NEW c \in Threads, Refuse(c)
       PROVE  OneRenewal'
  BY <1>10, <1>c, RefuseDoes
<1>11. ASSUME NEW c \in Threads, RefreshFails(c)
       PROVE  OneRenewal'
  BY <1>11, <1>c, FailsDoes
<1>12. ASSUME NEW c \in Threads, Told(c)
       PROVE  OneRenewal'
  BY <1>12, <1>c, ToldDoes
<1>13. ASSUME NEW c \in Threads, StoreFresh(c)
       PROVE  OneRenewal'
  <2> DEFINE s == call[c].tokens.auth
  <2>1. /\ Alone(c) /\ call[c].step = "renewed" /\ call'[c].step = "idle" /\ hurt' = hurt
        /\ \A a \in Accounts : a # call[c].account => stored'[a] = stored[a]
        /\ stored'[call[c].account].auth = s
    BY <1>13, StoreDoes
  <2>2. \A d \in Threads : d # c /\ Renewing(d) /\ call[d].tokens.auth = s => s \in hurt
    BY <2>1 DEF OneRenewal
  <2>3. \A d \in Threads : Renewing(d)' =>
          d # c /\ Renewing(d) /\ call'[d] = call[d] /\ call[d].account \in Accounts
    BY <2>1, CallTypes
  <2> QED  BY <2>1, <2>2, <2>3 DEF OneRenewal
<1>14. ASSUME NEW c \in Threads, NEW a \in Accounts, Disconnect(c, a)
       PROVE  OneRenewal'
  BY <1>14, <1>c, DisconnectDoes
<1>15. ASSUME NEW c \in Threads, Revoke(c)
       PROVE  OneRenewal'
  <2>1. PICK s \in Auths : s = call[c].tokens.auth
    BY <1>15, CallTypes DEF Revoke, ForItsAccount, Auths
  <2> QED  BY <1>15, <2>1, <1>c, RevokeDoes
<1>16. ASSUME NEW c \in Threads, Forget(c)
       PROVE  OneRenewal'
  BY <1>16, <1>c, ForgetDoes
<1>17. ASSUME NEW s \in Auths, Withdraw(s)
       PROVE  OneRenewal'
  BY <1>17, WithdrawDoes DEF OneRenewal
<1>18. ASSUME NEW r \in Processes, Crash(r)
       PROVE  OneRenewal'
  BY <1>18, CrashDoes DEF OneRenewal
<1>19. CASE Tick \/ Quiet
  BY <1>19, RestDoes DEF OneRenewal
<1> QED
  BY <1>1, <1>2, <1>3, <1>5, <1>6, <1>7, <1>8, <1>9, <1>10, <1>11, <1>12,
     <1>13, <1>14, <1>15, <1>16, <1>17, <1>18, <1>19
  DEF Next, Connect, Refresh, Leave

-----------------------------------------------------------------------------
(* What is honoured.                                                       *)

LEMMA InForceStep ==
    ASSUME TypeOK, ForItsAccount, LocksAreInUse, SingleUse, OneRenewal, InForce,
           HealthyStaysRenewable, Next
    PROVE  InForce'
<1> USE DEF Alone, Keeps, At, Stored, Honoured
<1>a. \A c \in Threads : Holding(c) => call[c].tokens.auth \in Auths
  BY HeldIsBegun
\* Whoever starts nothing, while the platforms retire only what is hurt.
<1>c. ASSUME NEW c \in Threads, Alone(c), hurt \subseteq hurt',
             \A s \in Auths : s \notin hurt' => grants[s].honoured \subseteq grants'[s].honoured,
             \A a \in Accounts : stored'[a] = stored[a] \/ stored'[a].auth = 0,
             call'[c].step \in {"idle", "exchanging", "reauth", "revoking", "forgetting"}
      PROVE  InForce'
  BY <1>a, <1>c DEF InForce, Holding
<1>1. ASSUME NEW c \in Threads, NEW a \in Accounts, Begin(c, a)
      PROVE  InForce'
  <2>1. \A s \in Auths : grants'[s].honoured = grants[s].honoured
    BY <1>1, BeginDoes
  <2> QED  BY <1>1, <2>1, <1>a, BeginDoes DEF InForce, Holding
<1>2. ASSUME NEW c \in Threads, NEW s \in Auths, Complete(c, s)
      PROVE  InForce'
  <2>1. /\ UNCHANGED <<stored, hurt, grants>> /\ Alone(c)
        /\ call'[c] = call[c] \/ call'[c].step = "exchanging"
        /\ call[c].step = "idle"
    BY <1>2, CompleteDoes
  <2> QED  BY <2>1, <1>c
<1>3. ASSUME NEW c \in Threads, ListPending(c) \/ \E s \in Auths : Abandon(c, s)
      PROVE  InForce'
  BY <1>3, ListDoes DEF InForce
<1>5. ASSUME NEW c \in Threads, Exchange(c)
      PROVE  InForce'
  <2>1. PICK s \in Auths : s = call[c].tokens.auth
    BY <1>5, <1>a DEF Exchange, Holding
  <2>2. /\ UNCHANGED <<stored, hurt>> /\ Alone(c) /\ call[c].step = "exchanging"
        /\ \A u \in Auths : u # s => grants'[u] = grants[u]
        /\ \/ redeemed[s] = 0 /\ grants'[s].honoured = {1}
           \/ grants' = grants /\ call'[c].step = "idle"
        /\ call'[c].step = "idle" \/ (call'[c].step = "connected" /\ Keeps(c))
    BY <1>5, <2>1, ExchangeDoes
  <2>3. CASE grants' = grants /\ call'[c].step = "idle"
    BY <2>2, <2>3, <1>c
  <2>4. CASE redeemed[s] = 0 /\ grants'[s].honoured = {1}
    <3>1. \A d \in Threads :
            d # c /\ call[d].step \in {"connected", "sending", "renewed"}
                => call[d].tokens.auth # s /\ call[d].tokens.auth \in Auths
      BY <2>4, <1>a DEF SingleUse, Unheard, Holding
    <3>2. \A d \in Threads : d # c => call'[d] = call[d]
      BY <2>2
    <3> QED  BY <2>1, <2>2, <2>4, <3>1, <3>2 DEF InForce
  <2> QED  BY <2>2, <2>3, <2>4
<1>6. ASSUME NEW c \in Threads, Install(c)
      PROVE  InForce'
  <2>1. /\ UNCHANGED <<grants, hurt>> /\ Alone(c) /\ call'[c].step = "idle"
        /\ \A a \in Accounts : a # call[c].account => stored'[a] = stored[a]
        /\ stored'[call[c].account].gen = 1
    BY <1>6, InstallDoes
  <2> QED  BY <2>1 DEF InForce
<1>7. ASSUME NEW c \in Threads, NEW a \in Accounts, Look(c, a)
      PROVE  InForce'
  BY <1>7, LookDoes DEF InForce
<1>8. ASSUME NEW c \in Threads, Enter(c)
      PROVE  InForce'
  <2>1. PICK t : t = Current(c)
    OBVIOUS
  <2>2. /\ Alone(c) /\ hurt \subseteq hurt' /\ UNCHANGED <<stored, grants>>
        /\ call[c].step = "waiting"
        /\ lock[ProcessOf[c]][call[c].account] = Nobody
    BY <1>8, <2>1, EnterDoes
  <2>3. CASE call'[c].step \in {"idle", "reauth"}
    BY <2>2, <2>3, <1>c
  <2>4. CASE /\ call'[c].step = "sending" /\ call'[c].tokens = t /\ t.gen # 0
             /\ Overlaps(c, t) \/ ~Stored(call[c].account) => t.auth \in hurt'
    <3>1. t.auth \notin hurt' => t.gen \in grants[t.auth].honoured
      <4> HAVE t.auth \notin hurt'
      <4> DEFINE a == call[c].account
      <4>1. a \in Accounts /\ Stored(a) /\ t = stored[a]
        BY <2>1, <2>4, CallTypes DEF Current
      <4>2. \A d \in Threads : ~(/\ At(d, "renewed") /\ call[d].account = a
                                 /\ call[d].tokens.auth = t.auth)
        <5> TAKE d \in Threads
        <5> SUFFICES ASSUME At(d, "renewed"), call[d].account = a, call[d].tokens.auth = t.auth
                     PROVE  FALSE
          OBVIOUS
        <5>1. Renewing(d) /\ Holding(c)
          BY <2>2 DEF Renewing, Holding
        <5>2. ProcessOf[d] # ProcessOf[c]
          BY <2>2, <5>1, OneOfAProcess
        <5>3. Overlaps(c, t)
          BY <5>1, <5>2 DEF Overlaps, Renewing
        <5> QED  BY <2>4, <5>3
      <4>3. stored[a].auth \notin hurt
        BY <2>2, <4>1
      <4> QED  BY <4>1, <4>2, <4>3 DEF HealthyStaysRenewable
    <3>2. \A d \in Threads : d # c => call'[d] = call[d]
      BY <2>2
    <3> QED  BY <2>2, <2>4, <3>1, <3>2 DEF InForce
  <2> QED  BY <1>8, <2>1, <2>3, <2>4, EnterDoes
<1>9. ASSUME NEW c \in Threads, Renew(c)
      PROVE  InForce'
  <2>1. PICK s \in Auths : s = call[c].tokens.auth
    BY <1>9, <1>a DEF Renew, Holding
  <2>2. /\ stored' = stored /\ Alone(c) /\ hurt \subseteq hurt' /\ call[c].step = "sending"
        /\ \A u \in Auths : u # s => grants'[u] = grants[u]
    BY <1>9, <2>1, RenewDoes
  <2>3. CASE /\ call'[c].step = "idle"
             /\ s \notin hurt' => grants[s].honoured \subseteq grants'[s].honoured
    <3>1. \A u \in Auths : u \notin hurt' => grants[u].honoured \subseteq grants'[u].honoured
      BY <2>2, <2>3
    <3> QED  BY <2>2, <2>3, <3>1, <1>c
  <2>4. CASE /\ Keeps(c) /\ call'[c].step = "renewed" /\ hurt' = hurt
             /\ \/ call'[c].reply = 0 /\ grants' = grants
                \/ call'[c].reply # 0 /\ call'[c].reply \in grants'[s].honoured
    <3>1. \A d \in Threads :
            d # c /\ call[d].step \in {"connected", "sending", "renewed"}
                  /\ call[d].tokens.auth \notin hurt
                => call[d].tokens.auth # s /\ call[d].tokens.auth \in Auths
      <4> TAKE d \in Threads
      <4> HAVE /\ d # c /\ call[d].step \in {"connected", "sending", "renewed"}
               /\ call[d].tokens.auth \notin hurt
      <4>1. call[d].tokens.auth \in Auths
        BY <1>a DEF Holding
      <4>2. CASE call[d].step = "connected"
        BY <2>1, <2>2, <4>1, <4>2 DEF SingleUse, Unheard
      <4>3. CASE call[d].step \in {"sending", "renewed"}
        BY <2>1, <2>2, <4>1, <4>3 DEF OneRenewal, Renewing
      <4> QED  BY <4>1, <4>2, <4>3
    <3>2. \A d \in Threads : d # c => call'[d] = call[d]
      BY <2>2
    <3>3. s \notin hurt =>
            (IF call'[c].reply = 0 THEN call'[c].tokens.gen ELSE call'[c].reply)
                \in grants'[call'[c].tokens.auth].honoured
      BY <2>1, <2>2, <2>4 DEF InForce
    <3>4. /\ \A d \in Threads : call'[d].step \in {"waiting", "sending", "renewed"} =>
                call'[d].tokens.gen # 0
          /\ \A d \in Threads : call'[d].step = "connected" /\ call'[d].tokens.auth \notin hurt' =>
                1 \in grants'[call'[d].tokens.auth].honoured
          /\ \A d \in Threads : call'[d].step = "sending" /\ call'[d].tokens.auth \notin hurt' =>
                call'[d].tokens.gen \in grants'[call'[d].tokens.auth].honoured
      BY <2>2, <2>4, <3>1, <3>2 DEF InForce
    <3>5. \A d \in Threads : call'[d].step = "renewed" /\ call'[d].tokens.auth \notin hurt' =>
            (IF call'[d].reply = 0 THEN call'[d].tokens.gen ELSE call'[d].reply)
                \in grants'[call'[d].tokens.auth].honoured
      BY <2>1, <2>2, <2>4, <3>1, <3>2, <3>3 DEF InForce
    <3> QED  BY <2>2, <3>4, <3>5 DEF InForce
  <2> QED  BY <1>9, <2>1, <2>3, <2>4, RenewDoes
<1>10. ASSUME NEW c \in Threads, Refuse(c)
       PROVE  InForce'
  BY <1>10, <1>c, RefuseDoes
<1>11. ASSUME NEW c \in Threads, RefreshFails(c)
       PROVE  InForce'
  BY <1>11, <1>c, FailsDoes
<1>12. ASSUME NEW c \in Threads, Told(c)
       PROVE  InForce'
  BY <1>12, <1>c, ToldDoes
<1>13. ASSUME NEW c \in Threads, StoreFresh(c)
       PROVE  InForce'
  <2>1. /\ UNCHANGED <<grants, hurt>> /\ Alone(c) /\ call'[c].step = "idle"
        /\ call[c].step = "renewed"
        /\ \A a \in Accounts : a # call[c].account => stored'[a] = stored[a]
        /\ stored'[call[c].account].gen # 0
    BY <1>13, StoreDoes DEF InForce
  <2> QED  BY <2>1 DEF InForce
<1>14. ASSUME NEW c \in Threads, NEW a \in Accounts, Disconnect(c, a)
       PROVE  InForce'
  BY <1>14, <1>c, DisconnectDoes
<1>15. ASSUME NEW c \in Threads, Revoke(c)
       PROVE  InForce'
  <2>1. PICK s \in Auths : s = call[c].tokens.auth
    BY <1>15, CallTypes DEF Revoke, ForItsAccount, Auths
  <2>2. /\ stored' = stored /\ Alone(c) /\ hurt \subseteq hurt' /\ call'[c].step = "forgetting"
        /\ \A u \in Auths : u \notin hurt' => grants'[u] = grants[u]
    BY <1>15, <2>1, RevokeDoes
  <2> QED  BY <2>2, <1>c
<1>16. ASSUME NEW c \in Threads, Forget(c)
       PROVE  InForce'
  BY <1>16, <1>c, ForgetDoes
<1>17. ASSUME NEW s \in Auths, Withdraw(s)
       PROVE  InForce'
  BY <1>17, <1>a, WithdrawDoes DEF InForce, Holding
<1>18. ASSUME NEW r \in Processes, Crash(r)
       PROVE  InForce'
  BY <1>18, CrashDoes DEF InForce
<1>19. CASE Tick \/ Quiet
  BY <1>19, RestDoes DEF InForce
<1> QED
  BY <1>1, <1>2, <1>3, <1>5, <1>6, <1>7, <1>8, <1>9, <1>10, <1>11, <1>12,
     <1>13, <1>14, <1>15, <1>16, <1>17, <1>18, <1>19
  DEF Next, Connect, Refresh, Leave

-----------------------------------------------------------------------------
(* A healthy account stays renewable.                                      *)

\* The tokens of a row are honoured, or their successors are on the way.
Backed(a) ==
    \/ stored[a].gen \in grants[stored[a].auth].honoured
    \/ \E c \in Threads : /\ call[c].step = "renewed" /\ call[c].account = a
                          /\ call[c].tokens.auth = stored[a].auth

LEMMA HealthyStaysRenewableStep ==
    ASSUME TypeOK, ForItsAccount, SingleUse, OneRenewal, InForce,
           HealthyStaysRenewable, InForce', Next
    PROVE  HealthyStaysRenewable'
<1> USE DEF Alone, Keeps, Stored
<1>a. \A a \in Accounts : Stored(a) /\ stored[a].auth \notin hurt => Backed(a)
  BY DEF HealthyStaysRenewable, Backed, At
<1>b. SUFFICES ASSUME NEW a \in Accounts, stored'[a].auth # 0, stored'[a].auth \notin hurt'
               PROVE  Backed(a)'
  BY DEF HealthyStaysRenewable, Backed, At, InForce
<1>d. \A b \in Accounts : Stored(b) => stored[b].auth \in Auths
  <2> TAKE b \in Accounts
  <2>1. stored[b].auth \in 0..MaxAuths
    BY DEF TypeOK, TokenSets
  <2> QED  BY <2>1 DEF Auths
\* Whoever has no reply in hand and stores nothing.
<1>c. ASSUME NEW c \in Threads, Alone(c), hurt \subseteq hurt', call[c].step # "renewed",
             stored'[a] = stored[a] \/ stored'[a].auth = 0,
             stored[a].auth \in Auths /\ stored[a].auth \notin hurt' =>
                grants[stored[a].auth].honoured \subseteq grants'[stored[a].auth].honoured
      PROVE  Backed(a)'
  <2>1. stored'[a] = stored[a] /\ stored[a].auth \in Auths /\ stored[a].auth \notin hurt
    BY <1>b, <1>c, <1>d
  <2>2. Backed(a)
    BY <2>1, <1>a, <1>b
  <2> QED  BY <1>b, <1>c, <2>1, <2>2 DEF Backed
<1>1. ASSUME NEW c \in Threads, NEW b \in Accounts, Begin(c, b)
      PROVE  Backed(a)'
  <2>1. \A s \in Auths : grants'[s].honoured = grants[s].honoured
    BY <1>1, BeginDoes
  <2> QED  BY <1>1, <2>1, <1>a, <1>b, <1>d, BeginDoes DEF Backed
<1>2. ASSUME NEW c \in Threads, NEW s \in Auths, Complete(c, s)
      PROVE  Backed(a)'
  BY <1>2, <1>c, CompleteDoes
<1>3. ASSUME NEW c \in Threads, ListPending(c) \/ \E s \in Auths : Abandon(c, s)
      PROVE  Backed(a)'
  BY <1>3, <1>a, <1>b, ListDoes DEF Backed
<1>5. ASSUME NEW c \in Threads, Exchange(c)
      PROVE  Backed(a)'
  <2>1. PICK s \in Auths : s = call[c].tokens.auth
    BY <1>5, HeldIsBegun DEF Exchange, Holding, At
  <2>2. /\ UNCHANGED <<stored, hurt>> /\ Alone(c) /\ call[c].step = "exchanging"
        /\ \A u \in Auths : u # s => grants'[u] = grants[u]
        /\ redeemed[s] = 0 \/ grants' = grants
    BY <1>5, <2>1, ExchangeDoes
  <2>3. redeemed[s] = 0 => stored[a].auth # s
    BY DEF SingleUse, Unheard
  <2> QED  BY <2>2, <2>3, <1>c
<1>6. ASSUME NEW c \in Threads, Install(c)
      PROVE  Backed(a)'
  <2>1. /\ UNCHANGED <<grants, hurt>> /\ Alone(c) /\ call[c].step = "connected"
        /\ a # call[c].account => stored'[a] = stored[a]
        /\ stored'[call[c].account].auth = call[c].tokens.auth
        /\ stored'[call[c].account].gen = 1
    BY <1>6, InstallDoes
  <2>2. CASE a = call[c].account
    BY <2>1, <2>2, <1>b DEF InForce, Honoured, Backed, At
  <2>3. CASE a # call[c].account
    BY <2>1, <2>3, <1>c
  <2> QED  BY <2>2, <2>3
<1>7. ASSUME NEW c \in Threads, NEW b \in Accounts, Look(c, b)
      PROVE  Backed(a)'
  BY <1>7, <1>c, LookDoes
<1>8. ASSUME NEW c \in Threads, Enter(c)
      PROVE  Backed(a)'
  <2>1. PICK t : t = Current(c)
    OBVIOUS
  <2>2. /\ Alone(c) /\ hurt \subseteq hurt' /\ UNCHANGED <<stored, grants>>
        /\ call[c].step = "waiting"
    BY <1>8, <2>1, EnterDoes
  <2> QED  BY <2>2, <1>c
<1>9. ASSUME NEW c \in Threads, Renew(c)
      PROVE  Backed(a)'
  <2>1. PICK s \in Auths : s = call[c].tokens.auth
    BY <1>9, HeldIsBegun DEF Renew, Holding, At
  <2>2. /\ stored' = stored /\ Alone(c) /\ hurt \subseteq hurt' /\ call[c].step = "sending"
        /\ \A u \in Auths : u # s => grants'[u] = grants[u]
    BY <1>9, <2>1, RenewDoes
  <2>3. CASE stored[a].auth # s \/ (s \notin hurt' => grants[s].honoured \subseteq grants'[s].honoured)
    BY <2>2, <2>3, <1>c
  <2>4. CASE stored[a].auth = s /\ Keeps(c) /\ call'[c].step = "renewed"
    <3>1. call[c].account = a
      BY <2>1, <2>2, <2>4, HeldIsBegun, <1>b DEF ForItsAccount, Holding
    <3> QED  BY <2>1, <2>2, <2>4, <3>1 DEF Backed
  <2>5. \/ s \notin hurt' => grants[s].honoured \subseteq grants'[s].honoured
        \/ Keeps(c) /\ call'[c].step = "renewed"
    <3> HIDE DEF Keeps, Alone
    <3> QED  BY <1>9, <2>1, RenewDoes
  <2> QED  BY <2>3, <2>4, <2>5
<1>10. ASSUME NEW c \in Threads, Refuse(c)
       PROVE  Backed(a)'
  BY <1>10, <1>c, RefuseDoes
<1>11. ASSUME NEW c \in Threads, RefreshFails(c)
       PROVE  Backed(a)'
  BY <1>11, <1>c, FailsDoes
<1>12. ASSUME NEW c \in Threads, Told(c)
       PROVE  Backed(a)'
  BY <1>12, <1>c, ToldDoes
<1>13. ASSUME NEW c \in Threads, StoreFresh(c)
       PROVE  Backed(a)'
  <2>1. /\ UNCHANGED <<grants, hurt>> /\ Alone(c) /\ call[c].step = "renewed"
        /\ a # call[c].account => stored'[a] = stored[a]
        /\ stored'[call[c].account].auth = call[c].tokens.auth
        /\ stored'[call[c].account].gen =
             IF call[c].reply = 0 THEN call[c].tokens.gen ELSE call[c].reply
    BY <1>13, StoreDoes
  <2>2. CASE a = call[c].account
    <3>1. call[c].tokens.auth \notin hurt
      BY <2>1, <2>2, <1>b
    <3>2. stored'[a].gen \in grants[call[c].tokens.auth].honoured
      BY <2>1, <2>2, <3>1 DEF InForce, Honoured, At
    <3> QED  BY <2>1, <2>2, <3>2 DEF Backed
  <2>3. CASE a # call[c].account
    <3>1. stored'[a] = stored[a] /\ Backed(a)
      BY <2>1, <2>3, <1>a, <1>b
    <3> QED  BY <2>1, <2>3, <3>1 DEF Backed
  <2> QED  BY <2>2, <2>3
<1>14. ASSUME NEW c \in Threads, NEW b \in Accounts, Disconnect(c, b)
       PROVE  Backed(a)'
  BY <1>14, <1>c, DisconnectDoes
<1>15. ASSUME NEW c \in Threads, Revoke(c)
       PROVE  Backed(a)'
  <2>1. PICK s \in Auths : s = call[c].tokens.auth
    BY <1>15, CallTypes DEF Revoke, ForItsAccount, Auths, At
  <2>2. /\ stored' = stored /\ Alone(c) /\ hurt \subseteq hurt' /\ call[c].step = "revoking"
        /\ \A u \in Auths : u \notin hurt' => grants'[u] = grants[u]
    BY <1>15, <2>1, RevokeDoes
  <2> QED  BY <2>2, <1>c
<1>16. ASSUME NEW c \in Threads, Forget(c)
       PROVE  Backed(a)'
  BY <1>16, <1>c, ForgetDoes
<1>17. ASSUME NEW s \in Auths, Withdraw(s)
       PROVE  Backed(a)'
  BY <1>17, <1>a, <1>b, <1>d, WithdrawDoes DEF Backed
<1>18. ASSUME NEW r \in Processes, Crash(r)
       PROVE  Backed(a)'
  <2>1. UNCHANGED <<stored, grants>> /\ hurt \subseteq hurt'
    BY <1>18, CrashDoes
  <2>2. Backed(a)
    BY <2>1, <1>a, <1>b
  <2>3. CASE stored[a].gen \in grants[stored[a].auth].honoured
    BY <2>1, <2>3 DEF Backed
  <2>4. ASSUME NEW c \in Threads, call[c].step = "renewed", call[c].account = a,
               call[c].tokens.auth = stored[a].auth
        PROVE  Backed(a)'
    <3>1. CASE ProcessOf[c] = r
      <4>1. Honours(call[c].tokens)
        BY <1>18, <2>1, <2>4, <3>1, <1>b, CrashDoes DEF At
      <4>2. stored[a].gen = call[c].tokens.gen
        BY <2>1, <2>4, <1>b DEF OneRenewal, Renewing
      <4> QED  BY <2>1, <2>4, <4>1, <4>2 DEF Honours, Backed
    <3>2. CASE ProcessOf[c] # r
      BY <1>18, <2>1, <2>4, <3>2, CrashDoes DEF Backed
    <3> QED  BY <3>1, <3>2
  <2> QED  BY <2>2, <2>3, <2>4 DEF Backed
<1>19. CASE Tick \/ Quiet
  BY <1>19, <1>a, <1>b, RestDoes DEF Backed
<1> QED
  BY <1>1, <1>2, <1>3, <1>5, <1>6, <1>7, <1>8, <1>9, <1>10, <1>11, <1>12,
     <1>13, <1>14, <1>15, <1>16, <1>17, <1>18, <1>19
  DEF Next, Connect, Refresh, Leave

-----------------------------------------------------------------------------
(* How long things last.                                                   *)

\* Time passes for what the platform keeps.
LEMMA EndsMono ==
    ASSUME TypeOK
    PROVE  /\ \A a \in Accounts : \A x, y \in Nat : x <= y => Ends(a, x) <= Ends(a, y)
           /\ \A a \in Accounts : \A x \in Nat : Ends(a, x) \in Nat
           /\ platform' = platform => \A a, x : Ends(a, x)' = Ends(a, x)
<1>1. \A a \in Accounts : \A x, y \in Nat : x <= y => Ends(a, x) <= Ends(a, y)
  <2> TAKE a \in Accounts
  <2> TAKE x, y \in Nat
  <2>1. AccessTtl[platform[a]] \in Nat /\ GraceOf[platform[a]] \in Nat
    BY LifeTypes
  <2>2. CASE platform[a] = "instagram"
    BY <2>1, <2>2 DEF Ends
  <2>3. CASE platform[a] # "instagram"
    BY <2>1, <2>3 DEF Ends
  <2> QED  BY <2>2, <2>3
<1>2. \A a \in Accounts : \A x \in Nat : Ends(a, x) \in Nat
  BY LifeTypes
<1>3. platform' = platform => \A a, x : Ends(a, x)' = Ends(a, x)
  BY DEF Ends
<1> QED  BY <1>1, <1>2, <1>3

\* A grant never gets shorter, and none of the rest changes but by its thread.
LEMMA InTimeKept ==
    ASSUME TypeOK, TypeOK', ForItsAccount, InTime,
           platform' = platform, hurt \subseteq hurt',
           \A s \in Auths :
                /\ grants'[s].account = grants[s].account
                /\ grants'[s].ends = grants[s].ends
                   \/ (grants'[s].ends = Ends(grants[s].account, clock) /\ redeemed'[s] # 0)
                /\ redeemed'[s] = 0 => redeemed[s] = 0,
           clock' = clock
    PROVE  /\ \A s \in Auths : grants[s].ends <= grants'[s].ends
           /\ \A s \in Auths : redeemed'[s] = 0 => grants'[s].ends = 0
           /\ \A s \in Auths : grants'[s].ends <= Ends(grants[s].account, clock)
           /\ \A d \in Threads : Holding(d) => call[d].now <= clock
           /\ \A a \in Accounts : Stored(a) /\ stored[a].auth \notin hurt' =>
                (IF platform[a] = "instagram" THEN stored[a].expires ELSE stored[a].until)
                    <= grants'[stored[a].auth].ends
           /\ \A d \in Threads : call[d].tokens.auth \notin hurt' =>
                /\ At(d, "connected") \/ (At(d, "renewed") /\ call[d].reply # 0) =>
                     Ends(call[d].account, call[d].now) <= grants'[call[d].tokens.auth].ends
                /\ At(d, "sending") \/ (At(d, "renewed") /\ call[d].reply = 0) =>
                     (IF platform[call[d].account] = "instagram" THEN call[d].tokens.expires
                      ELSE call[d].tokens.until) <= grants'[call[d].tokens.auth].ends
<1>1. \A s \in Auths : /\ grants[s].ends \in Nat /\ grants'[s].ends \in Nat
                       /\ grants[s].account \in Accounts
  BY DEF TypeOK
<1>2. \A s \in Auths : grants[s].ends <= Ends(grants[s].account, clock)
  BY DEF InTime
<1>3. \A s \in Auths : Ends(grants[s].account, clock) \in Nat
  BY <1>1, EndsMono DEF TypeOK
<1>4. \A s \in Auths : grants[s].ends <= grants'[s].ends
  BY <1>1, <1>2, <1>3
<1>5. \A s \in Auths : redeemed'[s] = 0 => grants'[s].ends = 0
  BY DEF InTime
<1>6. \A s \in Auths : grants'[s].ends <= Ends(grants[s].account, clock)
  BY <1>1, <1>2, <1>3
<1>7. \A a \in Accounts : Stored(a) /\ stored[a].auth \notin hurt' =>
        (IF platform[a] = "instagram" THEN stored[a].expires ELSE stored[a].until)
            <= grants'[stored[a].auth].ends
  <2> TAKE a \in Accounts
  <2> HAVE Stored(a) /\ stored[a].auth \notin hurt'
  <2>1. stored[a].auth \in 0..MaxAuths /\ stored[a].expires \in Nat /\ stored[a].until \in Nat
    BY DEF TypeOK, TokenSets
  <2>2. stored[a].auth \in Auths
    BY <2>1 DEF Stored, Auths
  <2>3. (IF platform[a] = "instagram" THEN stored[a].expires ELSE stored[a].until)
            <= grants[stored[a].auth].ends
    BY DEF InTime, Lasts
  <2> QED  BY <1>1, <1>4, <2>1, <2>2, <2>3
<1>8. ASSUME NEW d \in Threads, call[d].tokens.auth \notin hurt',
             At(d, "connected") \/ (At(d, "renewed") /\ call[d].reply # 0)
      PROVE  Ends(call[d].account, call[d].now) <= grants'[call[d].tokens.auth].ends
  <2>1. call[d].tokens.auth \in Auths
    BY <1>8, HeldIsBegun DEF Holding, At
  <2>2. Ends(call[d].account, call[d].now) \in Nat
    BY CallTypes, EndsMono
  <2>3. Ends(call[d].account, call[d].now) <= grants[call[d].tokens.auth].ends
    BY <1>8 DEF InTime, Lasting
  <2> QED  BY <1>1, <1>4, <2>1, <2>2, <2>3
<1>9. ASSUME NEW d \in Threads, call[d].tokens.auth \notin hurt',
             At(d, "sending") \/ (At(d, "renewed") /\ call[d].reply = 0)
      PROVE  (IF platform[call[d].account] = "instagram" THEN call[d].tokens.expires
              ELSE call[d].tokens.until) <= grants'[call[d].tokens.auth].ends
  <2>1. call[d].tokens.auth \in Auths
    BY <1>9, HeldIsBegun DEF Holding, At
  <2>2. call[d].tokens.expires \in Nat /\ call[d].tokens.until \in Nat
    BY CallTypes
  <2>3. (IF platform[call[d].account] = "instagram" THEN call[d].tokens.expires
         ELSE call[d].tokens.until) <= grants[call[d].tokens.auth].ends
    BY <1>9 DEF InTime, Lasts
  <2> QED  BY <1>1, <1>4, <2>1, <2>2, <2>3
<1> QED  BY <1>4, <1>5, <1>6, <1>7, <1>8, <1>9 DEF InTime

\* Nobody else does anything but give up.
Others(c) == \A d \in Threads : d # c => call'[d] = call[d] \/ call'[d].step = "idle"

\* So a step keeps time if its thread, and what it stores, does.
LEMMA InTimeAfter ==
    ASSUME TypeOK, TypeOK', ForItsAccount, InTime,
           platform' = platform, hurt \subseteq hurt',
           NEW c, Others(c),
           \A s \in Auths :
                /\ grants'[s].account = grants[s].account
                /\ grants'[s].ends = grants[s].ends
                   \/ (grants'[s].ends = Ends(grants[s].account, clock) /\ redeemed'[s] # 0)
                /\ redeemed'[s] = 0 => redeemed[s] = 0,
           clock' = clock,
           \A a \in Accounts :
                \/ stored'[a] = stored[a] \/ stored'[a].auth = 0
                \/ stored'[a].auth \notin hurt' =>
                    (IF platform[a] = "instagram" THEN stored'[a].expires ELSE stored'[a].until)
                        <= grants'[stored'[a].auth].ends,
           c \in Threads /\ Holding(c)' => call'[c].now <= clock,
           c \in Threads /\ call'[c].tokens.auth \notin hurt' /\ call'[c].step \in {"connected", "renewed"}
                /\ (call'[c].step = "renewed" => call'[c].reply # 0)
                => Ends(call'[c].account, call'[c].now) <= grants'[call'[c].tokens.auth].ends,
           c \in Threads /\ call'[c].tokens.auth \notin hurt' /\ call'[c].step \in {"sending", "renewed"}
                /\ (call'[c].step = "renewed" => call'[c].reply = 0)
                => (IF platform[call'[c].account] = "instagram" THEN call'[c].tokens.expires
                    ELSE call'[c].tokens.until) <= grants'[call'[c].tokens.auth].ends,
           c \in Threads /\ call'[c].step = "renewed" /\ call'[c].reply = 0
                => platform[call'[c].account] # "instagram"
    PROVE  InTime'
<1> USE DEF Others, At
<1>1. /\ \A s \in Auths : redeemed'[s] = 0 => grants'[s].ends = 0
      /\ \A s \in Auths : grants'[s].ends <= Ends(grants[s].account, clock)
      /\ \A d \in Threads : Holding(d) => call[d].now <= clock
  BY InTimeKept
<1>2. \A s \in Auths : grants'[s].ends <= Ends(grants'[s].account, clock)
  BY <1>1
<1>3. \A a \in Accounts : stored'[a].auth # 0 /\ stored'[a].auth \notin hurt' =>
        (IF platform[a] = "instagram" THEN stored'[a].expires ELSE stored'[a].until)
            <= grants'[stored'[a].auth].ends
  <2> TAKE a \in Accounts
  <2>1. CASE stored'[a] = stored[a]
    BY <2>1, InTimeKept DEF Stored
  <2>2. CASE stored'[a] # stored[a]
    BY <2>2
  <2> QED  BY <2>1, <2>2
<1>4. \A d \in Threads : Holding(d)' => call'[d].now <= clock
  BY <1>1 DEF Holding
<1>5. ASSUME NEW d \in Threads, call'[d].tokens.auth \notin hurt',
             call'[d].step = "connected" \/ (call'[d].step = "renewed" /\ call'[d].reply # 0)
      PROVE  Ends(call'[d].account, call'[d].now) <= grants'[call'[d].tokens.auth].ends
  <2>1. CASE d = c
    BY <1>5, <2>1
  <2>2. CASE d # c
    <3>1. call'[d] = call[d]
      BY <1>5, <2>2
    <3> QED  BY <1>5, <3>1, InTimeKept
  <2> QED  BY <2>1, <2>2
<1>6. ASSUME NEW d \in Threads, call'[d].tokens.auth \notin hurt',
             call'[d].step = "sending" \/ (call'[d].step = "renewed" /\ call'[d].reply = 0)
      PROVE  (IF platform[call'[d].account] = "instagram" THEN call'[d].tokens.expires
              ELSE call'[d].tokens.until) <= grants'[call'[d].tokens.auth].ends
  <2>1. CASE d = c
    BY <1>6, <2>1
  <2>2. CASE d # c
    <3>1. call'[d] = call[d]
      BY <1>6, <2>2
    <3> QED  BY <1>6, <3>1, InTimeKept
  <2> QED  BY <2>1, <2>2
<1>7. \A d \in Threads : call'[d].step = "renewed" /\ call'[d].reply = 0
                         /\ call'[d].tokens.auth \notin hurt' =>
        platform[call'[d].account] # "instagram"
  BY DEF InTime
<1>8. /\ \A s \in Auths : grants'[s].ends <= Ends(grants[s].account, clock)'
      /\ \A d \in Threads : Lasting(d)' =
            (Ends(call'[d].account, call'[d].now) <= grants'[call'[d].tokens.auth].ends)
  BY <1>2 DEF Ends, Lasting
<1>9. /\ \A a \in Accounts : Lasts(stored[a], a)' =
            ((IF platform[a] = "instagram" THEN stored'[a].expires ELSE stored'[a].until)
                <= grants'[stored'[a].auth].ends)
      /\ \A d \in Threads : Lasts(call[d].tokens, call[d].account)' =
            ((IF platform[call'[d].account] = "instagram" THEN call'[d].tokens.expires
              ELSE call'[d].tokens.until) <= grants'[call'[d].tokens.auth].ends)
  BY DEF Lasts
<1>10. \A d \in Threads : At(d, "renewed")' /\ call'[d].tokens.auth \notin hurt' =>
            IF call'[d].reply # 0 THEN Lasting(d)'
            ELSE platform'[call'[d].account] # "instagram" /\ Lasts(call[d].tokens, call[d].account)'
  BY <1>5, <1>6, <1>7, <1>8, <1>9
<1>11. /\ \A a \in Accounts : Stored(a)' /\ stored'[a].auth \notin hurt' => Lasts(stored[a], a)'
       /\ \A d \in Threads : At(d, "connected")' /\ call'[d].tokens.auth \notin hurt' => Lasting(d)'
       /\ \A d \in Threads : At(d, "sending")' /\ call'[d].tokens.auth \notin hurt' =>
             Lasts(call[d].tokens, call[d].account)'
  BY <1>3, <1>5, <1>6, <1>8, <1>9 DEF Stored
<1> QED  BY <1>1, <1>4, <1>8, <1>10, <1>11 DEF InTime

LEMMA InTimeStep ==
    ASSUME TypeOK, ForItsAccount, SingleUse, InForce, InTime, Next
    PROVE  InTime'
<1> USE DEF Keeps
<1>a. TypeOK' /\ \A c \in Threads : Alone(c) => Others(c)
  BY TypesStep DEF Alone, Others
<1>b. /\ \A a \in Accounts : \A x \in Nat : Ends(a, x) \in Nat
      /\ \A a \in Accounts : \A x, y \in Nat : x <= y => Ends(a, x) <= Ends(a, y)
      /\ clock \in Nat
      /\ \A s \in Auths : grants[s].account \in Accounts /\ grants[s].ends \in Nat
  BY EndsMono DEF TypeOK
\* Whoever starts nothing and stores nothing, while no grant is renewed.
<1>c. ASSUME NEW c \in Threads, Alone(c), hurt \subseteq hurt',
             UNCHANGED <<platform, clock, redeemed>>,
             \A s \in Auths : grants'[s].account = grants[s].account /\ grants'[s].ends = grants[s].ends,
             \A a \in Accounts : stored'[a] = stored[a] \/ stored'[a].auth = 0,
             \/ call'[c].step \in {"idle", "reauth", "revoking", "forgetting"}
             \/ call'[c].step \in {"exchanging", "waiting"} /\ call'[c].now <= clock
      PROVE  InTime'
  <2>1. Holding(c)' => call'[c].now <= clock
    BY <1>c DEF Holding
  <2> QED  BY <1>c, <1>a, <2>1, InTimeAfter
<1>1. ASSUME NEW c \in Threads, NEW a \in Accounts, Begin(c, a)
      PROVE  InTime'
  <2>1. /\ UNCHANGED <<stored, call, redeemed, hurt, platform, clock>>
        /\ begun' = begun + 1 /\ begun' \in Auths
        /\ \A s \in Auths : s # begun' => grants'[s] = grants[s]
        /\ grants'[begun'].ends = grants[begun'].ends /\ grants'[begun'].account = a
    BY <1>1, BeginDoes
  <2>2. grants[begun'].ends = 0
    <3>1. begun' > begun
      BY <2>1 DEF TypeOK
    <3> QED  BY <2>1, <3>1 DEF SingleUse, InTime
  <2>3. \A s \in Auths : grants'[s].ends <= Ends(grants[s].account, clock)'
    <3>1. Ends(a, clock) \in Nat
      BY <1>b
    <3>2. \A s \in Auths : grants'[s].ends <= Ends(grants'[s].account, clock)
      BY <2>1, <2>2, <3>1 DEF InTime
    <3> QED  BY <2>1, <3>2 DEF Ends
  <2>4. \A s \in Auths : grants'[s].ends = grants[s].ends
    BY <2>1
  <2>5. /\ \A s \in Auths : redeemed'[s] = 0 => grants'[s].ends = 0
        /\ \A d \in Threads : Holding(d)' => call'[d].now <= clock'
    BY <2>1, <2>4 DEF InTime, Holding
  <2>6. \A d \in Threads : Holding(d) => call[d].tokens.auth \in Auths
    BY HeldIsBegun
  <2>7. /\ \A d \in Threads : At(d, "connected")' /\ call'[d].tokens.auth \notin hurt' => Lasting(d)'
        /\ \A d \in Threads : At(d, "sending")' /\ call'[d].tokens.auth \notin hurt' =>
                Lasts(call[d].tokens, call[d].account)'
        /\ \A d \in Threads : At(d, "renewed")' /\ call'[d].tokens.auth \notin hurt' =>
                IF call'[d].reply # 0 THEN Lasting(d)'
                ELSE /\ platform'[call'[d].account] # "instagram"
                     /\ Lasts(call[d].tokens, call[d].account)'
    BY <2>1, <2>4, <2>6 DEF InTime, Lasting, Lasts, Ends, At, Holding
  <2>8. \A b \in Accounts : Stored(b) => stored[b].auth \in Auths
    <3> TAKE b \in Accounts
    <3>1. stored[b].auth \in 0..MaxAuths
      BY DEF TypeOK, TokenSets
    <3> QED  BY <3>1 DEF Auths, Stored
  <2>9. \A b \in Accounts : Stored(b)' /\ stored'[b].auth \notin hurt' => Lasts(stored[b], b)'
    BY <2>1, <2>4, <2>8 DEF InTime, Lasts, Stored
  <2> QED  BY <2>3, <2>5, <2>7, <2>9 DEF InTime
<1>2. ASSUME NEW c \in Threads, NEW s \in Auths, Complete(c, s)
      PROVE  InTime'
  <2>1. /\ UNCHANGED <<stored, hurt, grants, redeemed, platform, clock>> /\ Alone(c)
        /\ \/ call'[c].step = "idle"
           \/ call'[c].step = "exchanging" /\ call'[c].now = clock
    BY <1>2, CompleteDoes
  <2> QED  BY <2>1, <1>b, <1>c
<1>3. ASSUME NEW c \in Threads, ListPending(c) \/ \E s \in Auths : Abandon(c, s)
      PROVE  InTime'
  <2>1. UNCHANGED <<stored, call, grants, redeemed, hurt, platform, clock>>
    BY <1>3, ListDoes
  <2> QED  BY <2>1 DEF InTime, Holding, Stored, At, Lasting, Lasts, Ends
<1>5. ASSUME NEW c \in Threads, Exchange(c)
      PROVE  InTime'
  <2>1. PICK s \in Auths : s = call[c].tokens.auth /\ grants[s].account = call[c].account
    BY <1>5, HeldIsBegun DEF Exchange, Holding, At
  <2>2. /\ UNCHANGED <<stored, hurt, platform, clock>> /\ Alone(c) /\ call[c].step = "exchanging"
        /\ \A u \in Auths : u # s => grants'[u] = grants[u] /\ redeemed'[u] = redeemed[u]
        /\ redeemed[s] # 2 => redeemed'[s] = redeemed[s] + 1
        /\ grants'[s].account = grants[s].account
        /\ \/ /\ grants'[s].ends = Ends(grants[s].account, clock)
              /\ \/ Keeps(c) /\ call'[c].step = "connected"
                 \/ call'[c].step = "idle"
           \/ grants' = grants /\ call'[c].step = "idle"
    BY <1>5, <2>1, ExchangeDoes
  <2>3. redeemed'[s] # 0
    BY <2>1, <2>2 DEF SingleUse, At
  <2>4. call[c].now <= clock /\ call[c].now \in Nat
    BY <2>2, CallTypes DEF InTime, Holding
  <2>5. Ends(call[c].account, call[c].now) <= Ends(call[c].account, clock)
    BY <2>4, <1>b, CallTypes
  <2>6. \A u \in Auths :
          /\ grants'[u].account = grants[u].account
          /\ grants'[u].ends = grants[u].ends
             \/ (grants'[u].ends = Ends(grants[u].account, clock) /\ redeemed'[u] # 0)
          /\ redeemed'[u] = 0 => redeemed[u] = 0
    BY <2>2, <2>3
  <2>7. Holding(c)' => call'[c].now <= clock
    BY <2>2, <2>4 DEF Holding
  <2>8. call'[c].step = "connected" =>
          Ends(call'[c].account, call'[c].now) <= grants'[call'[c].tokens.auth].ends
    BY <2>1, <2>2, <2>5
  <2> QED  BY <1>a, <2>2, <2>6, <2>7, <2>8, InTimeAfter
<1>6. ASSUME NEW c \in Threads, Install(c)
      PROVE  InTime'
  <2> DEFINE a == call[c].account
  <2>1. /\ UNCHANGED <<grants, redeemed, hurt, platform, clock>> /\ Alone(c)
        /\ call[c].step = "connected" /\ call'[c].step = "idle"
        /\ \A b \in Accounts : b # a => stored'[b] = stored[b]
        /\ stored'[a].auth = call[c].tokens.auth
        /\ stored'[a].expires = call[c].now + AccessTtl[platform[a]]
        /\ stored'[a].until = call[c].now + GraceOf[platform[a]]
    BY <1>6, InstallDoes
  <2>2. stored'[a].auth \notin hurt' =>
            (IF platform[a] = "instagram" THEN stored'[a].expires ELSE stored'[a].until)
                <= grants'[stored'[a].auth].ends
    BY <2>1 DEF InTime, Lasting, Ends, At
  <2>3. ~Holding(c)'
    BY <2>1 DEF Holding
  <2> QED  BY <1>a, <2>1, <2>2, <2>3, InTimeAfter
<1>7. ASSUME NEW c \in Threads, NEW a \in Accounts, Look(c, a)
      PROVE  InTime'
  <2>1. /\ UNCHANGED <<stored, hurt, grants, redeemed, platform, clock>> /\ Alone(c)
        /\ call'[c].step \in {"waiting", "reauth"} /\ call'[c].now = clock
    BY <1>7, LookDoes
  <2> QED  BY <2>1, <1>b, <1>c
<1>8. ASSUME NEW c \in Threads, Enter(c)
      PROVE  InTime'
  <2>1. PICK t : t = Current(c)
    OBVIOUS
  <2>2. /\ Alone(c) /\ hurt \subseteq hurt' /\ UNCHANGED <<stored, grants, redeemed, platform, clock>>
        /\ call[c].step = "waiting"
    BY <1>8, <2>1, EnterDoes
  <2>3. CASE call'[c].step \in {"idle", "reauth"}
    BY <2>2, <2>3, <1>c
  <2>4. CASE /\ call'[c].step = "sending" /\ call'[c].tokens = t
             /\ call'[c].account = call[c].account /\ call'[c].now = call[c].now
             /\ ~Stored(call[c].account) => t.auth \in hurt'
    <3>1. call[c].now <= clock /\ call[c].account \in Accounts
      BY <2>2, CallTypes DEF InTime, Holding
    <3>2. t.auth \notin hurt' =>
            (IF platform[call[c].account] = "instagram" THEN t.expires ELSE t.until)
                <= grants'[t.auth].ends
      BY <2>1, <2>2, <2>4, <3>1 DEF InTime, Lasts, Current
    <3>3. Holding(c)' => call'[c].now <= clock
      BY <2>4, <3>1
    <3> QED  BY <1>a, <2>2, <2>4, <3>2, <3>3, InTimeAfter
  <2> QED  BY <1>8, <2>1, <2>3, <2>4, EnterDoes
<1>9. ASSUME NEW c \in Threads, Renew(c)
      PROVE  InTime'
  <2>1. PICK s \in Auths : s = call[c].tokens.auth /\ grants[s].account = call[c].account
    BY <1>9, HeldIsBegun DEF Renew, Holding, At
  <2>2. /\ UNCHANGED <<stored, redeemed, platform, clock>> /\ Alone(c)
        /\ call[c].step = "sending"
        /\ \A u \in Auths : u # s => grants'[u] = grants[u]
        /\ grants'[s].account = grants[s].account
    BY <1>9, <2>1, RenewDoes
  <2>3. \/ /\ Keeps(c) /\ call'[c].step = "renewed" /\ hurt' = hurt
           /\ \/ /\ call'[c].reply = 0 /\ grants' = grants
                 /\ platform[call[c].account] # "instagram"
              \/ /\ call'[c].reply # 0 /\ grants'[s].ends = Ends(grants[s].account, clock)
        \/ /\ call'[c].step = "idle" /\ hurt \subseteq hurt'
           /\ grants'[s].ends \in {grants[s].ends, Ends(grants[s].account, clock)}
    BY <1>9, <2>1, RenewDoes
  <2>4. redeemed[s] # 0
    BY <2>1, <2>2 DEF SingleUse, Unheard
  <2>5. hurt \subseteq hurt'
    BY <2>3
  <2>6. \A u \in Auths :
          /\ grants'[u].account = grants[u].account
          /\ grants'[u].ends = grants[u].ends
             \/ (grants'[u].ends = Ends(grants[u].account, clock) /\ redeemed'[u] # 0)
          /\ redeemed'[u] = 0 => redeemed[u] = 0
    BY <2>2, <2>3, <2>4
  <2>7. call[c].now <= clock /\ call[c].now \in Nat
    BY <2>2, CallTypes DEF InTime, Holding
  <2>8. Ends(call[c].account, call[c].now) <= Ends(call[c].account, clock)
    BY <2>7, <1>b, CallTypes
  <2>9. Holding(c)' => call'[c].now <= clock
    BY <2>3, <2>7 DEF Holding
  <2>10. call'[c].step = "renewed" /\ call'[c].reply # 0 =>
           Ends(call'[c].account, call'[c].now) <= grants'[call'[c].tokens.auth].ends
    BY <2>1, <2>3, <2>8
  <2>11. call'[c].step = "renewed" /\ call'[c].reply = 0 /\ call'[c].tokens.auth \notin hurt' =>
           (IF platform[call'[c].account] = "instagram" THEN call'[c].tokens.expires
            ELSE call'[c].tokens.until) <= grants'[call'[c].tokens.auth].ends
    BY <2>1, <2>2, <2>3 DEF InTime, Lasts, At
  <2>12. /\ call'[c].step \in {"renewed", "idle"}
         /\ call'[c].step = "renewed" /\ call'[c].reply = 0 =>
                platform[call'[c].account] # "instagram"
    BY <2>3
  <2> QED  BY <1>a, <2>2, <2>5, <2>6, <2>9, <2>10, <2>11, <2>12, InTimeAfter
<1>10. ASSUME NEW c \in Threads, Refuse(c)
       PROVE  InTime'
  BY <1>10, <1>c, RefuseDoes
<1>11. ASSUME NEW c \in Threads, RefreshFails(c)
       PROVE  InTime'
  BY <1>11, <1>c, FailsDoes
<1>12. ASSUME NEW c \in Threads, Told(c)
       PROVE  InTime'
  BY <1>12, <1>c, ToldDoes
<1>13. ASSUME NEW c \in Threads, StoreFresh(c)
       PROVE  InTime'
  <2> DEFINE a == call[c].account
  <2>1. /\ UNCHANGED <<grants, redeemed, hurt, platform, clock>> /\ Alone(c)
        /\ call[c].step = "renewed" /\ call'[c].step = "idle"
        /\ \A b \in Accounts : b # a => stored'[b] = stored[b]
        /\ stored'[a].auth = call[c].tokens.auth
        /\ stored'[a].expires = call[c].now + AccessTtl[platform[a]]
        /\ call[c].reply # 0 => stored'[a].until = call[c].now + GraceOf[platform[a]]
        /\ call[c].reply = 0 => stored'[a].until = call[c].tokens.until
    BY <1>13, StoreDoes
  <2>2. stored'[a].auth \notin hurt' =>
            (IF platform[a] = "instagram" THEN stored'[a].expires ELSE stored'[a].until)
                <= grants'[stored'[a].auth].ends
    <3>1. CASE call[c].reply # 0
      BY <2>1, <3>1 DEF InTime, Lasting, Ends, At
    <3>2. CASE call[c].reply = 0
      BY <2>1, <3>2 DEF InTime, Lasts, At
    <3> QED  BY <3>1, <3>2
  <2>3. ~Holding(c)'
    BY <2>1 DEF Holding
  <2> QED  BY <1>a, <2>1, <2>2, <2>3, InTimeAfter
<1>14. ASSUME NEW c \in Threads, NEW a \in Accounts, Disconnect(c, a)
       PROVE  InTime'
  BY <1>14, <1>c, DisconnectDoes
<1>15. ASSUME NEW c \in Threads, Revoke(c)
       PROVE  InTime'
  <2>1. PICK s \in Auths : s = call[c].tokens.auth
    BY <1>15, CallTypes DEF Revoke, ForItsAccount, Auths, At
  <2>2. /\ UNCHANGED <<stored, redeemed, platform, clock>> /\ Alone(c) /\ hurt \subseteq hurt'
        /\ call'[c].step = "forgetting"
        /\ \A u \in Auths : grants'[u].account = grants[u].account /\ grants'[u].ends = grants[u].ends
    BY <1>15, <2>1, RevokeDoes
  <2> QED  BY <2>2, <1>c
<1>16. ASSUME NEW c \in Threads, Forget(c)
       PROVE  InTime'
  BY <1>16, <1>c, ForgetDoes
<1>17. ASSUME NEW s \in Auths, Withdraw(s)
       PROVE  InTime'
  <2>1. /\ UNCHANGED <<stored, call, redeemed, platform, clock>> /\ hurt \subseteq hurt'
        /\ \A u \in Auths : grants'[u].account = grants[u].account /\ grants'[u].ends = grants[u].ends
    BY <1>17, WithdrawDoes
  <2>2. Others(Nobody)
    BY <2>1 DEF Others
  <2> QED  BY <2>1, <2>2, <1>a, InTimeAfter
<1>18. ASSUME NEW r \in Processes, Crash(r)
       PROVE  InTime'
  <2>1. UNCHANGED <<stored, grants, redeemed, platform, clock>> /\ hurt \subseteq hurt'
    BY <1>18, CrashDoes
  <2>2. Others(Nobody)
    BY <1>18, CrashDoes DEF Others
  <2> QED  BY <2>1, <2>2, <1>a, InTimeAfter
<1>19. CASE Tick \/ Quiet
  <2>1. UNCHANGED <<stored, call, grants, redeemed, hurt, platform>> /\ clock' \in Nat /\ clock <= clock'
    BY <1>19, RestDoes
  <2>2. \A s \in Auths : grants'[s].ends <= Ends(grants[s].account, clock)'
    <3>1. \A s \in Auths : /\ grants[s].ends <= Ends(grants[s].account, clock)
                            /\ Ends(grants[s].account, clock) <= Ends(grants[s].account, clock')
                            /\ Ends(grants[s].account, clock) \in Nat
                            /\ Ends(grants[s].account, clock') \in Nat
      BY <2>1, <1>b DEF InTime
    <3>2. \A s \in Auths : grants[s].ends <= Ends(grants[s].account, clock')
      BY <3>1, <1>b
    <3> QED  BY <2>1, <3>2 DEF Ends
  <2>3. \A d \in Threads : Holding(d)' => call'[d].now <= clock'
    <3> TAKE d \in Threads
    <3>1. call[d].now \in Nat /\ (Holding(d) => call[d].now <= clock)
      BY CallTypes DEF InTime
    <3> QED  BY <2>1, <3>1, <1>b DEF Holding
  <2> QED  BY <2>1, <2>2, <2>3 DEF InTime, Holding, Stored, At, Lasting, Lasts, Ends
<1> QED
  BY <1>1, <1>2, <1>3, <1>5, <1>6, <1>7, <1>8, <1>9, <1>10, <1>11, <1>12,
     <1>13, <1>14, <1>15, <1>16, <1>17, <1>18, <1>19
  DEF Next, Connect, Refresh, Leave

-----------------------------------------------------------------------------
(* Who is asked to reconnect.                                              *)

LEMMA ReauthMeansDeadStep ==
    ASSUME TypeOK, ForItsAccount, InForce, InTime, ReauthMeansDead, Next
    PROVE  ReauthMeansDead'
<1> USE DEF At, Keeps
<1>a. TypeOK' /\ clock \in Nat
  BY TypesStep DEF TypeOK
\* Nobody is asked who was not.
<1>c. ASSUME platform' = platform, hurt \subseteq hurt', clock' \in Nat, clock <= clock',
             \A c \in Threads : call'[c].step = "reauth" => call'[c] = call[c]
      PROVE  ReauthMeansDead'
  <2> SUFFICES ASSUME NEW c \in Threads, call'[c].step = "reauth"
               PROVE  LET t == call'[c].tokens IN
                      \/ t.auth = 0
                      \/ t.auth \in hurt'
                      \/ clock' >= t.until
                      \/ platform'[call'[c].account] = "instagram" /\ clock' >= t.expires
    BY DEF ReauthMeansDead
  <2> DEFINE t == call[c].tokens
  <2>1. call'[c] = call[c]
    BY <1>c
  <2>2. \/ t.auth = 0 \/ t.auth \in hurt \/ clock >= t.until
        \/ platform[call[c].account] = "instagram" /\ clock >= t.expires
    BY <2>1 DEF ReauthMeansDead
  <2>3. t.until \in Nat /\ t.expires \in Nat
    BY CallTypes
  <2> HIDE DEF t
  <2>4. \/ t.auth = 0 \/ t.auth \in hurt' \/ clock' >= t.until
        \/ platform'[call[c].account] = "instagram" /\ clock' >= t.expires
    BY <1>a, <1>c, <2>2, <2>3
  <2> QED  BY <2>1, <2>4 DEF t
<1>1. ASSUME NEW c \in Threads, NEW a \in Accounts, Begin(c, a)
      PROVE  ReauthMeansDead'
  BY <1>1, <1>a, <1>c, BeginDoes
<1>2. ASSUME NEW c \in Threads, NEW s \in Auths, Complete(c, s)
      PROVE  ReauthMeansDead'
  BY <1>2, <1>a, <1>c, CompleteDoes DEF Alone
<1>3. ASSUME NEW c \in Threads, ListPending(c) \/ \E s \in Auths : Abandon(c, s)
      PROVE  ReauthMeansDead'
  BY <1>3, <1>a, <1>c, ListDoes
<1>5. ASSUME NEW c \in Threads, Exchange(c)
      PROVE  ReauthMeansDead'
  <2>1. PICK s \in Auths : s = call[c].tokens.auth
    BY <1>5, HeldIsBegun DEF Exchange, Holding
  <2> QED  BY <1>5, <2>1, <1>a, <1>c, ExchangeDoes DEF Alone
<1>6. ASSUME NEW c \in Threads, Install(c)
      PROVE  ReauthMeansDead'
  BY <1>6, <1>a, <1>c, InstallDoes DEF Alone
<1>7. ASSUME NEW c \in Threads, NEW a \in Accounts, Look(c, a)
      PROVE  ReauthMeansDead'
  <2>1. CASE call'[c].step = "waiting"
    BY <1>7, <2>1, <1>a, <1>c, LookDoes DEF Alone
  <2>2. CASE call'[c].step # "waiting"
    <3>1. /\ call'[c].tokens.auth = 0
          /\ UNCHANGED <<hurt, platform, clock>>
          /\ \A d \in Threads : d # c => call'[d] = call[d]
      BY <1>7, <2>2, LookDoes DEF Alone, Stored
    <3> QED  BY <3>1 DEF ReauthMeansDead
  <2> QED  BY <2>1, <2>2
<1>8. ASSUME NEW c \in Threads, Enter(c)
      PROVE  ReauthMeansDead'
  <2>1. PICK t : t = Current(c)
    OBVIOUS
  <2>2. /\ Alone(c) /\ hurt \subseteq hurt' /\ UNCHANGED <<platform, clock>>
        /\ call[c].step = "waiting" /\ t \in TokenSets
    BY <1>8, <2>1, EnterDoes
  <2>3. CASE call'[c].step \in {"idle", "sending"}
    BY <2>2, <2>3, <1>a, <1>c DEF Alone
  <2>4. CASE /\ call'[c].tokens = t /\ ~CanRefresh(t, call[c].now) /\ hurt' = hurt
    <3>1. t.gen # 0
      BY <2>1, <2>2, CallTypes DEF Current, InForce
    <3>2. call[c].now <= clock /\ call[c].now \in Nat
      BY <2>2, CallTypes DEF InTime, Holding
    <3>3. clock >= t.until
      BY <2>2, <2>4, <3>1, <3>2, <1>a DEF CanRefresh, TokenSets
    <3>4. \A d \in Threads : d # c => call'[d] = call[d]
      BY <2>2 DEF Alone
    <3> QED  BY <2>2, <2>4, <3>3, <3>4 DEF ReauthMeansDead
  <2> QED  BY <1>8, <2>1, <2>3, <2>4, EnterDoes
<1>9. ASSUME NEW c \in Threads, Renew(c)
      PROVE  ReauthMeansDead'
  <2>1. PICK s \in Auths : s = call[c].tokens.auth
    BY <1>9, HeldIsBegun DEF Renew, Holding
  <2>2. /\ UNCHANGED <<platform, clock>> /\ hurt \subseteq hurt'
        /\ Alone(c) /\ call'[c].step \in {"renewed", "idle"}
    BY <1>9, <2>1, RenewDoes
  <2> QED  BY <2>2, <1>a, <1>c DEF Alone
<1>10. ASSUME NEW c \in Threads, Refuse(c)
       PROVE  ReauthMeansDead'
  <2> DEFINE t == call[c].tokens
  <2>1. /\ UNCHANGED <<grants, hurt, platform, clock>>
        /\ Alone(c) /\ call'[c].tokens = t /\ call'[c].account = call[c].account
        /\ call[c].step = "sending" /\ ~Honours(t)
    BY <1>10, RefuseDoes
  <2>2. t.auth \in Auths /\ t.until \in Nat /\ t.expires \in Nat
    BY <2>1, CallTypes, HeldIsBegun DEF Holding
  <2>3. ASSUME t.auth \notin hurt
        PROVE  \/ clock >= t.until
               \/ platform[call[c].account] = "instagram" /\ clock >= t.expires
    <3>1. clock >= grants[t.auth].ends
      BY <2>1, <2>2, <2>3, <1>a DEF InForce, Honoured, Honours, TypeOK
    <3>2. (IF platform[call[c].account] = "instagram" THEN t.expires ELSE t.until)
              <= grants[t.auth].ends
      BY <2>1, <2>3 DEF InTime, Lasts
    <3>3. grants[t.auth].ends \in Nat
      BY <2>2 DEF TypeOK
    <3> QED  BY <2>2, <3>1, <3>2, <3>3, <1>a
  <2>4. \A d \in Threads : d # c => call'[d] = call[d]
    BY <2>1 DEF Alone
  <2> QED  BY <2>1, <2>3, <2>4 DEF ReauthMeansDead
<1>11. ASSUME NEW c \in Threads, RefreshFails(c)
       PROVE  ReauthMeansDead'
  BY <1>11, <1>a, <1>c, FailsDoes DEF Alone
<1>12. ASSUME NEW c \in Threads, Told(c)
       PROVE  ReauthMeansDead'
  BY <1>12, <1>a, <1>c, ToldDoes DEF Alone
<1>13. ASSUME NEW c \in Threads, StoreFresh(c)
       PROVE  ReauthMeansDead'
  BY <1>13, <1>a, <1>c, StoreDoes DEF Alone
<1>14. ASSUME NEW c \in Threads, NEW a \in Accounts, Disconnect(c, a)
       PROVE  ReauthMeansDead'
  BY <1>14, <1>a, <1>c, DisconnectDoes DEF Alone
<1>15. ASSUME NEW c \in Threads, Revoke(c)
       PROVE  ReauthMeansDead'
  <2>1. PICK s \in Auths : s = call[c].tokens.auth
    BY <1>15, CallTypes DEF Revoke, ForItsAccount, Auths
  <2> QED  BY <1>15, <2>1, <1>a, <1>c, RevokeDoes DEF Alone
<1>16. ASSUME NEW c \in Threads, Forget(c)
       PROVE  ReauthMeansDead'
  BY <1>16, <1>a, <1>c, ForgetDoes DEF Alone
<1>17. ASSUME NEW s \in Auths, Withdraw(s)
       PROVE  ReauthMeansDead'
  <2>1. UNCHANGED <<call, platform, clock>> /\ hurt \subseteq hurt'
    BY <1>17, WithdrawDoes
  <2> QED  BY <2>1, <1>a, <1>c
<1>18. ASSUME NEW r \in Processes, Crash(r)
       PROVE  ReauthMeansDead'
  <2>1. /\ UNCHANGED <<platform, clock>> /\ hurt \subseteq hurt'
        /\ \A c \in Threads : call'[c].step = "reauth" => call'[c] = call[c]
    BY <1>18, CrashDoes
  <2> QED  BY <2>1, <1>a, <1>c
<1>19. CASE Tick \/ Quiet
  BY <1>19, <1>a, <1>c, RestDoes
<1> QED
  BY <1>1, <1>2, <1>3, <1>5, <1>6, <1>7, <1>8, <1>9, <1>10, <1>11, <1>12,
     <1>13, <1>14, <1>15, <1>16, <1>17, <1>18, <1>19
  DEF Next, Connect, Refresh, Leave

-----------------------------------------------------------------------------
(* The theorems.                                                           *)

LEMMA InitInv == Init => ConnInv
<1> SUFFICES ASSUME Init PROVE ConnInv
  OBVIOUS
<1>1. TypeOK
  <2>1. \A a \in Accounts : NoTokens \in TokenSets
    BY RestTypes
  <2>2. grants \in [Auths -> GrantRows]
    BY RestTypes DEF Init, GrantRows, Calls
  <2> QED  BY <2>1, <2>2, RestTypes DEF Init, TypeOK, GrantRows
<1>2. /\ \A c \in Threads : call[c].step = "idle"
      /\ \A a \in Accounts : stored[a].auth = 0
      /\ \A s \in Auths : ~pending[s].held /\ redeemed[s] = 0 /\ grants[s].ends = 0
      /\ \A r \in Processes, a \in Accounts : lock[r][a] = Nobody
  BY DEF Init, Idle, Doing, NoTokens, Only, NotPending
<1>3. LocksAreInUse
  BY <1>2 DEF LocksAreInUse
<1>4. ForItsAccount
  BY <1>2 DEF ForItsAccount, Holding, Stored, At
<1>5. SingleUse
  <2>1. \A s \in Auths : Unheard(s)
    BY <1>2 DEF Unheard, Auths
  <2> QED  BY <1>2, <2>1 DEF SingleUse, At
<1>6. OneRenewal /\ InForce
  BY <1>2 DEF OneRenewal, Renewing, InForce, Stored, At
<1>7. HealthyStaysRenewable /\ ReauthMeansDead
  BY <1>2 DEF HealthyStaysRenewable, ReauthMeansDead, Stored, At
<1>8. InTime
  <2>1. \A s \in Auths : grants[s].ends <= Ends(grants[s].account, clock)
    <3> TAKE s \in Auths
    <3>1. Ends(grants[s].account, clock) \in Nat
      BY <1>1, EndsMono DEF TypeOK
    <3> QED  BY <1>2, <3>1
  <2> QED  BY <1>2, <2>1 DEF InTime, Holding, Stored, At
<1> QED  BY <1>1, <1>3, <1>4, <1>5, <1>6, <1>7, <1>8 DEF ConnInv

LEMMA ConnInvStep == ConnInv /\ [Next]_vars => ConnInv'
<1> SUFFICES ASSUME ConnInv, [Next]_vars PROVE ConnInv'
  OBVIOUS
<1>1. CASE Next
  <2>1. TypeOK' /\ ForItsAccount'
    BY <1>1, TypesStep, ForItsAccountStep DEF ConnInv
  <2>2. LocksAreInUse'
    BY <1>1, LocksAreInUseStep DEF ConnInv
  <2>3. SingleUse'
    BY <1>1, SingleUseStep DEF ConnInv
  <2>4. OneRenewal'
    BY <1>1, OneRenewalStep DEF ConnInv
  <2>5. InForce'
    BY <1>1, InForceStep DEF ConnInv
  <2>6. HealthyStaysRenewable'
    BY <1>1, <2>5, HealthyStaysRenewableStep DEF ConnInv
  <2>7. InTime'
    BY <1>1, InTimeStep DEF ConnInv
  <2>8. ReauthMeansDead'
    BY <1>1, ReauthMeansDeadStep DEF ConnInv
  <2> QED  BY <2>1, <2>2, <2>3, <2>4, <2>5, <2>6, <2>7, <2>8 DEF ConnInv
<1>2. CASE UNCHANGED vars
  <2>1. /\ TypeOK' = TypeOK /\ LocksAreInUse' = LocksAreInUse /\ ForItsAccount' = ForItsAccount
    BY <1>2 DEF vars, TypeOK, LocksAreInUse, ForItsAccount, Holding, Stored, At
  <2>2. SingleUse' = SingleUse /\ OneRenewal' = OneRenewal
    BY <1>2 DEF vars, SingleUse, Unheard, OneRenewal, Renewing, At
  <2>3. InForce' = InForce /\ HealthyStaysRenewable' = HealthyStaysRenewable
    BY <1>2 DEF vars, InForce, Honoured, HealthyStaysRenewable, Stored, At
  <2>4. InTime' = InTime /\ ReauthMeansDead' = ReauthMeansDead
    BY <1>2 DEF vars, InTime, Lasts, Lasting, Ends, Holding, ReauthMeansDead, Stored, At
  <2> QED  BY <2>1, <2>2, <2>3, <2>4 DEF ConnInv
<1> QED  BY <1>1, <1>2

\* Everything the other theorems need of connecting, renewing and disconnecting
\* (accounts.py:147-305, refresh.py:111-219) holds in every reachable state.
THEOREM ConnInvHolds == Spec => []ConnInv
<1> QED  BY InitInv, ConnInvStep, PTL DEF Spec

\* Every variable keeps its type in every reachable state.
THEOREM TypeCorrect == Spec => []TypeOK
<1>1. ConnInv => TypeOK
  BY DEF ConnInv
<1> QED  BY <1>1, ConnInvHolds, PTL

\* A refresh lock is held by exactly the one thread of its process that is
\* renewing the account (refresh.py:124-139): no failure, refusal or loss of a
\* process leaves an account locked.
THEOREM LockedWhileInUse == Spec => []LocksAreInUse
<1>1. ConnInv => LocksAreInUse
  BY DEF ConnInv
<1> QED  BY <1>1, ConnInvHolds, PTL

\* An authorisation is redeemed once at most, and serves the account it was
\* begun for (accounts.py:147-219), whatever callbacks are replayed.
THEOREM NeverRedeemedTwice == Spec => []RedeemedOnce
<1>1. ConnInv => RedeemedOnce
  BY DEF ConnInv, SingleUse, ForItsAccount, RedeemedOnce, Stored
<1> QED  BY <1>1, ConnInvHolds, PTL

\* What is on the row of an account nobody hurt can be renewed, or its
\* successor is on its way (refresh.py:141-188, durable.py:155-168).
THEOREM HealthyIsRenewable == Spec => []HealthyStaysRenewable
<1>1. ConnInv => HealthyStaysRenewable
  BY DEF ConnInv
<1> QED  BY <1>1, ConnInvHolds, PTL

\* ReauthRequired is raised for dead authorisations only (refresh.py:111-146,
\* 190-214): no creator is asked to reconnect because two threads met or a
\* platform did not answer.
THEOREM OnlyDeadReauthorise == Spec => []ReauthMeansDead
<1>1. ConnInv => ReauthMeansDead
  BY DEF ConnInv
<1> QED  BY <1>1, ConnInvHolds, PTL

=============================================================================
