---------------------------- MODULE ServicesProofs ----------------------------
(***************************************************************************)
(* Theorems about sign-ins and sessions, about the readers of foreign      *)
(* mark-up, and about one tool request from its route to the worker, for   *)
(* any people, times, depths and numbers of retries; and the types of all  *)
(* the parts that MCServices puts together.                                *)
(***************************************************************************)
EXTENDS HandoffProofs, GateProofs, PolicyProofs, ResultProofs, FiniteSetTheorems, SequenceTheorems, TLAPS

-----------------------------------------------------------------------------
(* The callbacks of a login.                                               *)

\* The types the argument reads.
LoginTypes ==
    /\ now \in Nat /\ pending \in Nat /\ signedIn \in Nat /\ crossed \in BOOLEAN
    /\ codes = [n \in SignIn!Code |-> codes[n]]
    /\ callback \in [SignIn!Callback -> [at : {"idle", "found", "deleted", "over"}, code : Nat]]

Followed == \E n \in SignIn!Code : codes[n] # SignIn!Nobody
Finding(c)  == callback[c].at = "found"
Deleted(c)  == callback[c].at = "deleted"

\* A callback is at work on a login that was followed; if no two of them have
\* overlapped, there is one at most between reading the key and the session it
\* signs in, and once the key has been deleted it does not come back.
LoginInv ==
    /\ (\E c \in SignIn!Callback : Finding(c) \/ Deleted(c)) => Followed
    /\ signedIn > 0 => Followed
    /\ ~crossed =>
          /\ \A b, c \in SignIn!Callback : Finding(b) /\ Finding(c) => b = c
          /\ \A b, c \in SignIn!Callback : Deleted(b) /\ Deleted(c) => b = c
          /\ signedIn <= 1
          /\ (\E c \in SignIn!Callback : Deleted(c)) => signedIn = 0
          /\ (signedIn > 0 \/ \E c \in SignIn!Callback : Deleted(c)) =>
                pending = 0 /\ \A c \in SignIn!Callback : ~Finding(c)

\* What of the login most steps leave alone.
LoginStands == UNCHANGED <<pending, codes, callback, signedIn, crossed>>

LEMMA LoginInit == SignIn!Init => LoginTypes /\ LoginInv
<1> SUFFICES ASSUME SignIn!Init PROVE LoginTypes /\ LoginInv
  OBVIOUS
<1>1. \A c \in SignIn!Callback : ~Finding(c) /\ ~Deleted(c)
  BY DEF SignIn!Init, Finding, Deleted
<1>2. LoginTypes
  BY SessionAssumption DEF SignIn!Init, LoginTypes, SignIn!Callback
<1>3. QED
  BY <1>1, <1>2 DEF SignIn!Init, LoginInv

\* A login that was followed is not started again; one that was not has nobody
\* at work on it.
LEMMA OidcLoginStep ==
    ASSUME LoginTypes, LoginInv, SignIn!OidcLogin
    PROVE  (LoginTypes /\ LoginInv)'
<1>1. /\ pending' = now + StateTtl /\ ~Followed
      /\ UNCHANGED <<now, codes, callback, signedIn, crossed>>
  BY DEF SignIn!OidcLogin, SignIn!World, Followed
<1>2. LoginTypes'
  BY <1>1, SessionAssumption DEF LoginTypes
<1>3. QED
  BY <1>1, <1>2 DEF LoginTypes, LoginInv, Finding, Deleted, Followed

LEMMA AuthorizeStep ==
    ASSUME LoginTypes, LoginInv, NEW n \in SignIn!Code, NEW p, SignIn!Authorize(n, p)
    PROVE  (LoginTypes /\ LoginInv)'
<1>1. /\ codes[n] = SignIn!Nobody /\ codes' = [codes EXCEPT ![n] = p]
      /\ UNCHANGED <<now, pending, callback, signedIn, crossed>>
  BY DEF SignIn!Authorize
<1>2. LoginTypes' /\ (Followed => Followed')
  BY <1>1 DEF LoginTypes, Followed
<1>3. QED
  BY <1>1, <1>2 DEF LoginInv, Finding, Deleted

\* A key that is gone is not found; two that find it overlap.
LEMMA CallbackReadStep ==
    ASSUME LoginTypes, LoginInv, NEW c \in SignIn!Callback, NEW n \in SignIn!Code,
           SignIn!CallbackRead(c, n)
    PROVE  (LoginTypes /\ LoginInv)'
<1>1. /\ codes[n] # SignIn!Nobody
      /\ callback' = [callback EXCEPT ![c] = [at |-> IF now < pending THEN "found" ELSE "over", code |-> n]]
      /\ crossed' = (crossed \/ \E b \in SignIn!Callback : Finding(b))
      /\ UNCHANGED <<now, pending, codes, signedIn>>
  BY DEF SignIn!CallbackRead, SignIn!World, Finding
<1>2. n \in Nat
  BY DEF SignIn!Code
<1>3. LoginTypes'
  BY <1>1, <1>2 DEF LoginTypes
<1>4. /\ \A b \in SignIn!Callback \ {c} : (Finding(b)' <=> Finding(b)) /\ (Deleted(b)' <=> Deleted(b))
      /\ Finding(c)' => now < pending
      /\ ~Deleted(c)'
  BY <1>1 DEF LoginTypes, Finding, Deleted
<1>5. Followed'
  BY <1>1 DEF Followed
<1>6. ASSUME ~crossed'
      PROVE  ~crossed /\ \A b \in SignIn!Callback : ~Finding(b)
  BY <1>1, <1>6
<1>7. pending = 0 => ~Finding(c)'
  BY <1>4 DEF LoginTypes
<1>8. ASSUME ~crossed'
      PROVE  /\ \A a, b \in SignIn!Callback : Finding(a)' /\ Finding(b)' => a = b
             /\ \A a, b \in SignIn!Callback : Deleted(a)' /\ Deleted(b)' => a = b
             /\ (\E b \in SignIn!Callback : Deleted(b)') => signedIn' = 0
             /\ (signedIn' > 0 \/ \E b \in SignIn!Callback : Deleted(b)') =>
                   pending' = 0 /\ \A b \in SignIn!Callback : ~Finding(b)'
  BY <1>1, <1>4, <1>6, <1>7, <1>8 DEF LoginInv
<1>9. QED
  BY <1>1, <1>3, <1>5, <1>6, <1>8 DEF LoginInv

\* The key is deleted by the one callback that has found it.
LEMMA CallbackDeleteStep ==
    ASSUME LoginTypes, LoginInv, NEW c \in SignIn!Callback, SignIn!CallbackDelete(c)
    PROVE  (LoginTypes /\ LoginInv)'
<1>1. /\ Finding(c) /\ UNCHANGED <<now, codes, signedIn, crossed>>
      /\ \/ pending' = 0 /\ callback' = [callback EXCEPT ![c].at = "deleted"]
         \/ pending' \in {pending, 0} /\ callback' = [callback EXCEPT ![c].at = "over"]
  BY DEF SignIn!CallbackDelete, SignIn!StateAfterRead, SignIn!Step, SignIn!World, Finding
<1>2. LoginTypes'
  BY <1>1 DEF LoginTypes
<1>3. /\ \A b \in SignIn!Callback \ {c} : (Finding(b)' <=> Finding(b)) /\ (Deleted(b)' <=> Deleted(b))
      /\ ~Finding(c)' /\ (Deleted(c)' => pending' = 0)
      /\ pending = 0 => pending' = 0
  BY <1>1 DEF LoginTypes, Finding, Deleted
<1>4. Followed'
  BY <1>1 DEF LoginInv, Followed
<1>5. QED
  BY <1>1, <1>2, <1>3, <1>4 DEF LoginTypes, LoginInv

\* And it signs in once, if at all.
LEMMA CallbackFinishStep ==
    ASSUME LoginTypes, LoginInv, NEW c \in SignIn!Callback, SignIn!CallbackFinish(c)
    PROVE  (LoginTypes /\ LoginInv)'
<1>1. /\ Deleted(c) /\ callback' = [callback EXCEPT ![c].at = "over"]
      /\ signedIn' \in {signedIn, signedIn + 1} /\ UNCHANGED <<now, pending, codes, crossed>>
  BY DEF SignIn!CallbackFinish, SignIn!Step, SignIn!World, Deleted
<1>2. LoginTypes'
  BY <1>1 DEF LoginTypes
<1>3. /\ \A b \in SignIn!Callback \ {c} : (Finding(b)' <=> Finding(b)) /\ (Deleted(b)' <=> Deleted(b))
      /\ ~Finding(c)' /\ ~Deleted(c)'
  BY <1>1 DEF LoginTypes, Finding, Deleted
<1>4. Followed'
  BY <1>1 DEF LoginInv, Followed
<1>5. QED
  BY <1>1, <1>2, <1>3, <1>4 DEF LoginTypes, LoginInv

\* A restart ends every callback under way.
LEMMA ReconfigureStep ==
    ASSUME LoginTypes, LoginInv, NEW s, SignIn!Reconfigure(s)
    PROVE  (LoginTypes /\ LoginInv)'
<1>1. /\ callback' = [c \in SignIn!Callback |->
             IF callback[c].at = "idle" THEN callback[c] ELSE [callback[c] EXCEPT !.at = "over"]]
      /\ UNCHANGED <<now, pending, codes, signedIn, crossed>>
  BY DEF SignIn!Reconfigure
<1>2. \A c \in SignIn!Callback : ~Finding(c)' /\ ~Deleted(c)'
  BY <1>1 DEF LoginTypes, Finding, Deleted
<1>3. LoginTypes'
  BY <1>1 DEF LoginTypes
<1>4. QED
  BY <1>1, <1>2, <1>3 DEF LoginInv, Followed

LEMMA LoginStep ==
    ASSUME LoginTypes, LoginInv, SignIn!Next \/ UNCHANGED sessions
    PROVE  (LoginTypes /\ LoginInv)'
<1>1. ASSUME LoginStands, now' = now \/ now' = now + 1
      PROVE  (LoginTypes /\ LoginInv)'
  BY <1>1 DEF LoginStands, LoginTypes, LoginInv, Followed, Finding, Deleted
<1>2. CASE UNCHANGED sessions
  BY <1>1, <1>2 DEF sessions, LoginStands
<1>3. CASE \E p \in Person : SignIn!LdapLogin(p)
  BY <1>1, <1>3 DEF SignIn!LdapLogin, SignIn!World, SignIn!Login, LoginStands
<1>4. CASE SignIn!LocalLogin \/ SignIn!WebConsoleSession \/ SignIn!Logout
  BY <1>1, <1>4 DEF SignIn!LocalLogin, SignIn!WebConsoleSession, SignIn!Logout, SignIn!World,
                    SignIn!Login, LoginStands
<1>5. CASE \E p \in Person, claims \in SignIn!Claims : SignIn!ChangePerson(p, claims)
  BY <1>1, <1>5 DEF SignIn!ChangePerson, SignIn!Login, LoginStands
<1>6. CASE SignIn!Tick
  BY <1>1, <1>6 DEF SignIn!Tick, SignIn!Login, LoginStands
<1>7. QED
  BY <1>2, <1>3, <1>4, <1>5, <1>6, OidcLoginStep, AuthorizeStep, CallbackReadStep,
     CallbackDeleteStep, CallbackFinishStep, ReconfigureStep
  DEF SignIn!Next

\* The sessions in focus move by their own actions, and stay in focus.
LEMMA SessionsFocus ==
    [Next]_vars => /\ focus = "sessions" => SignIn!Next \/ UNCHANGED sessions
                   /\ UNCHANGED focus
BY DEF Next, vars

\* One login signs in once, unless two callbacks overlap between the reading of
\* its key and the deletion, whenever the API restarts and whatever answer is
\* lost (complete_oidc_callback).
THEOREM LoginSignsInOnce == Spec => []OneSessionPerLogin
<1> DEFINE Inv == focus = "sessions" => LoginTypes /\ LoginInv
<1>1. Init => Inv
  BY LoginInit DEF Init
<1>2. Inv /\ [Next]_vars => Inv'
  BY SessionsFocus, LoginStep
<1>3. Inv => OneSessionPerLogin
  BY DEF LoginInv, OneSessionPerLogin, SignIn!OneSessionPerLogin
<1>4. QED
  BY <1>1, <1>2, <1>3, PTL DEF Spec

-----------------------------------------------------------------------------
(* The session cookie.                                                     *)

\* The types the argument reads.
SessionTypes ==
    /\ settings \in SignIn!Settings
    /\ directory \in [Person -> SignIn!Claims]
    /\ held \in [Person -> [SignIn!Group -> Nat]]
    /\ codes \in [SignIn!Code -> Person \cup {SignIn!Nobody}]

\* When somebody last had a group is now, for the groups they have.
HeldInv ==
    \A p \in Person, g \in SignIn!Group :
        /\ held[p][g] <= now
        /\ g \in directory[p].groups => held[p][g] = now

\* A callback carries the code of a person.
CodeInv ==
    \A c \in SignIn!Callback :
        Finding(c) \/ Deleted(c) =>
            callback[c].code \in SignIn!Code /\ codes[callback[c].code] # SignIn!Nobody

\* A session of a provider was issued to a person while they had its groups; the
\* console's has the role of an operator.
CookieInv ==
    /\ cookie.source \in {"oidc", "ldap"} =>
          /\ cookie.claims.sub \in Person /\ cookie.claims.groups \subseteq SignIn!Group
          /\ cookie.expires \in Nat
          /\ \A g \in cookie.claims.groups :
                cookie.expires <= held[cookie.claims.sub][g] + SessionTtl
    /\ cookie.source = "web-console" => cookie.role = "operator"

SessionInv == LoginTypes /\ SessionTypes /\ HeldInv /\ CodeInv /\ CookieInv

LEMMA SessionInit == SignIn!Init => SessionInv
<1> SUFFICES ASSUME SignIn!Init PROVE SessionInv
  OBVIOUS
<1>1. LoginTypes
  BY LoginInit
<1>2. SessionTypes
  <2>1. settings \in SignIn!Settings
    BY DEF SignIn!Init
  <2>2. directory \in [Person -> SignIn!Claims]
    BY DEF SignIn!Init, SignIn!Claims, SignIn!Group
  <2>3. held \in [Person -> [SignIn!Group -> Nat]]
    <3>1. [staff |-> SessionTtl, heads |-> 0] \in [SignIn!Group -> Nat]
      BY SessionAssumption DEF SignIn!Group
    <3>2. QED
      BY <3>1 DEF SignIn!Init
  <2>4. QED
    BY <2>1, <2>2, <2>3 DEF SessionTypes, SignIn!Init
<1>3. HeldInv
  BY SessionAssumption DEF SignIn!Init, HeldInv, SignIn!Group
<1>4. CodeInv /\ CookieInv
  BY DEF SignIn!Init, CodeInv, CookieInv, Finding, Deleted, SignIn!NoCookie
<1>5. QED
  BY <1>1, <1>2, <1>3, <1>4 DEF SessionInv

\* A session that is issued has the groups of now.
LEMMA Issued ==
    ASSUME SessionInv, NEW p \in Person, NEW provider, NEW who,
           SignIn!SetSessionCookie(provider, SignIn!ClaimsOf(p), who), UNCHANGED <<held, now>>,
           provider \in {"oidc", "ldap"}
    PROVE  CookieInv'
<1>1. /\ cookie'.source = provider /\ cookie'.expires = now + SessionTtl
      /\ cookie'.claims = SignIn!ClaimsOf(p)
  BY DEF SignIn!SetSessionCookie
<1>2. directory[p].groups \subseteq SignIn!Group
  BY DEF SessionInv, SessionTypes, SignIn!Claims
<1>3. cookie'.claims.sub = p /\ cookie'.claims.groups = directory[p].groups
  BY <1>1 DEF SignIn!ClaimsOf
<1>4. \A g \in directory[p].groups : held[p][g] = now
  BY <1>2 DEF SessionInv, HeldInv
<1>5. now + SessionTtl \in Nat /\ now + SessionTtl <= now + SessionTtl
  BY SessionAssumption DEF SessionInv, LoginTypes
<1>6. QED
  BY <1>1, <1>2, <1>3, <1>4, <1>5 DEF CookieInv

\* A session keeps what it was issued with, as long as what was held is not
\* forgotten.
LEMMA CookieStays ==
    ASSUME SessionInv, cookie' = cookie,
           \A p \in Person, g \in SignIn!Group : held'[p][g] \in Nat /\ held[p][g] <= held'[p][g]
    PROVE  CookieInv'
<1> SUFFICES ASSUME cookie.source \in {"oidc", "ldap"}, NEW g \in cookie.claims.groups
             PROVE  cookie.expires <= held'[cookie.claims.sub][g] + SessionTtl
  BY DEF SessionInv, CookieInv
<1>1. cookie.claims.sub \in Person /\ g \in SignIn!Group /\ cookie.expires \in Nat
      /\ cookie.expires <= held[cookie.claims.sub][g] + SessionTtl
  BY DEF SessionInv, CookieInv
<1>2. held[cookie.claims.sub][g] \in Nat
  BY <1>1 DEF SessionInv, SessionTypes
<1>3. QED
  BY <1>1, <1>2, SessionAssumption

\* Sign-ins and sign-outs.
LEMMA SignInStep ==
    ASSUME SessionInv,
           \/ \E p \in Person : SignIn!LdapLogin(p)
           \/ SignIn!LocalLogin \/ SignIn!WebConsoleSession \/ SignIn!Logout
    PROVE  SessionInv'
<1>1. LoginStands /\ UNCHANGED <<settings, directory, held, now>>
  BY DEF SignIn!LdapLogin, SignIn!LocalLogin, SignIn!WebConsoleSession, SignIn!Logout,
         SignIn!World, SignIn!Login, LoginStands
<1>2. LoginTypes' /\ SessionTypes' /\ HeldInv' /\ CodeInv'
  BY <1>1 DEF SessionInv, LoginTypes, SessionTypes, HeldInv, CodeInv, LoginStands, Finding, Deleted
<1>3. CASE \E p \in Person : SignIn!LdapLogin(p)
  BY <1>1, <1>2, <1>3, Issued DEF SignIn!LdapLogin, SessionInv
<1>4. CASE SignIn!LocalLogin \/ SignIn!WebConsoleSession \/ SignIn!Logout
  <2>1. cookie'.source \notin {"oidc", "ldap"} /\ (cookie'.source = "web-console" => cookie'.role = "operator")
    BY <1>4 DEF SignIn!LocalLogin, SignIn!WebConsoleSession, SignIn!Logout,
                SignIn!SetSessionCookie, SignIn!NoCookie
  <2>2. QED
    BY <1>2, <2>1 DEF SessionInv, CookieInv
<1>5. QED
  BY <1>3, <1>4

\* The callbacks: whoever signs in is the person whose code it is.
LEMMA CallbackStep ==
    ASSUME SessionInv, LoginTypes',
           \/ SignIn!OidcLogin
           \/ \E n \in SignIn!Code, p \in Person : SignIn!Authorize(n, p)
           \/ \E c \in SignIn!Callback :
                 \/ SignIn!CallbackDelete(c) \/ SignIn!CallbackFinish(c)
                 \/ \E n \in SignIn!Code : SignIn!CallbackRead(c, n)
           \/ \E s \in SignIn!Settings : SignIn!Reconfigure(s)
    PROVE  SessionInv'
<1>1. /\ UNCHANGED <<directory, held, now>> /\ (settings' = settings \/ settings' \in SignIn!Settings)
      /\ \/ codes' = codes
         \/ \E n \in SignIn!Code, p \in Person :
               codes[n] = SignIn!Nobody /\ codes' = [codes EXCEPT ![n] = p] /\ callback' = callback
  BY DEF SignIn!OidcLogin, SignIn!Authorize, SignIn!CallbackDelete, SignIn!CallbackFinish,
         SignIn!CallbackRead, SignIn!Reconfigure, SignIn!World
<1>2. SessionTypes' /\ HeldInv'
  BY <1>1 DEF SessionInv, SessionTypes, HeldInv
<1>3. CodeInv'
  <2>1. CASE callback' = callback
    BY <1>1, <2>1 DEF SessionInv, SessionTypes, CodeInv, Finding, Deleted
  <2>2. CASE codes' = codes /\ \E c \in SignIn!Callback : SignIn!CallbackDelete(c) \/ SignIn!CallbackFinish(c)
    <3>1. PICK c \in SignIn!Callback :
              /\ callback[c].at \in {"found", "deleted"}
              /\ \E end : callback' = [callback EXCEPT ![c].at = end]
      BY <2>2 DEF SignIn!CallbackDelete, SignIn!CallbackFinish, SignIn!Step
    <3>2. \A b \in SignIn!Callback :
              callback'[b].code = callback[b].code /\ (b # c => callback'[b].at = callback[b].at)
      BY <3>1 DEF SessionInv, LoginTypes
    <3>3. QED
      BY <2>2, <3>1, <3>2 DEF SessionInv, CodeInv, Finding, Deleted
  <2>3. CASE \E c \in SignIn!Callback, n \in SignIn!Code : SignIn!CallbackRead(c, n)
    <3>1. PICK c \in SignIn!Callback, n \in SignIn!Code :
              /\ codes[n] # SignIn!Nobody /\ codes' = codes
              /\ \E end : callback' = [callback EXCEPT ![c] = [at |-> end, code |-> n]]
      BY <2>3 DEF SignIn!CallbackRead
    <3>2. \A b \in SignIn!Callback \ {c} : callback'[b] = callback[b]
      BY <3>1 DEF SessionInv, LoginTypes
    <3>3. callback'[c].code = n
      BY <3>1 DEF SessionInv, LoginTypes
    <3>4. QED
      BY <3>1, <3>2, <3>3 DEF SessionInv, CodeInv, Finding, Deleted
  <2>4. CASE \E s \in SignIn!Settings : SignIn!Reconfigure(s)
    <3>1. \A c \in SignIn!Callback : ~Finding(c)' /\ ~Deleted(c)'
      BY <2>4 DEF SignIn!Reconfigure, SessionInv, LoginTypes, Finding, Deleted
    <3>2. QED
      BY <3>1 DEF CodeInv
  <2>5. QED
    BY <2>1, <2>2, <2>3, <2>4
    DEF SignIn!OidcLogin, SignIn!Authorize, SignIn!CallbackDelete, SignIn!CallbackFinish
<1>4. CookieInv'
  <2>1. CASE cookie' = cookie
    BY <1>1, <2>1, CookieStays DEF SessionInv, SessionTypes, CookieInv
  <2>2. CASE cookie' # cookie
    <3>1. PICK c \in SignIn!Callback :
              /\ Deleted(c)
              /\ \E who : SignIn!SetSessionCookie("oidc", SignIn!ClaimsOf(codes[callback[c].code]), who)
      BY <2>2 DEF SignIn!OidcLogin, SignIn!Authorize, SignIn!CallbackDelete, SignIn!CallbackFinish,
                  SignIn!CallbackRead, SignIn!Reconfigure, Deleted
    <3>2. codes[callback[c].code] \in Person
      BY <3>1 DEF SessionInv, SessionTypes, CodeInv
    <3>3. QED
      BY <1>1, <3>1, <3>2, Issued
  <2>3. QED
    BY <2>1, <2>2
<1>5. QED
  BY <1>2, <1>3, <1>4 DEF SessionInv

\* What people lose, and when, is remembered.
LEMMA WorldStep ==
    ASSUME SessionInv,
           \/ \E p \in Person, claims \in SignIn!Claims : SignIn!ChangePerson(p, claims)
           \/ SignIn!Tick
    PROVE  SessionInv'
<1>1. LoginStands /\ UNCHANGED <<settings, cookie>>
  BY DEF SignIn!ChangePerson, SignIn!Tick, SignIn!Login, LoginStands
<1>2. (now' = now \/ now' = now + 1) /\ LoginTypes' /\ CodeInv'
  <2>1. now' = now \/ now' = now + 1
    BY DEF SignIn!ChangePerson, SignIn!Tick
  <2>2. QED
    BY <1>1, <2>1 DEF SessionInv, LoginTypes, CodeInv, LoginStands, Finding, Deleted
<1>3. /\ directory' \in [Person -> SignIn!Claims] /\ held' \in [Person -> [SignIn!Group -> Nat]]
      /\ HeldInv'
      /\ \A p \in Person, g \in SignIn!Group : held[p][g] <= held'[p][g]
  <2>1. CASE SignIn!Tick
    <3>1. /\ directory' = directory /\ now' = now + 1
          /\ held' = [p \in Person |-> [g \in SignIn!Group |->
                         IF g \in directory[p].groups THEN now' ELSE held[p][g]]]
      BY <2>1 DEF SignIn!Tick
    <3>2. \A p \in Person, g \in SignIn!Group :
              /\ held'[p][g] = IF g \in directory[p].groups THEN now' ELSE held[p][g]
              /\ held[p][g] \in Nat /\ held[p][g] <= now
      BY <3>1 DEF SessionInv, SessionTypes, HeldInv
    <3>3. now \in Nat /\ now' = now + 1
      BY <3>1 DEF SessionInv, LoginTypes
    <3>4. held' \in [Person -> [SignIn!Group -> Nat]]
      BY <3>1, <3>3 DEF SessionInv, SessionTypes
    <3>5. QED
      BY <3>1, <3>2, <3>3, <3>4 DEF SessionInv, SessionTypes, HeldInv
  <2>2. ASSUME NEW q \in Person, NEW claims \in SignIn!Claims, SignIn!ChangePerson(q, claims)
        PROVE  /\ directory' \in [Person -> SignIn!Claims] /\ held' \in [Person -> [SignIn!Group -> Nat]]
               /\ HeldInv'
               /\ \A p \in Person, g \in SignIn!Group : held[p][g] <= held'[p][g]
    <3>1. /\ directory' = [directory EXCEPT ![q] = claims] /\ now' = now
          /\ held' = [held EXCEPT ![q] = [g \in SignIn!Group |->
                         IF g \in claims.groups \cup directory[q].groups THEN now ELSE held[q][g]]]
      BY <2>2 DEF SignIn!ChangePerson, SignIn!Held
    <3>2. now \in Nat /\ \A p \in Person, g \in SignIn!Group : held[p][g] \in Nat /\ held[p][g] <= now
      BY DEF SessionInv, SessionTypes, HeldInv, LoginTypes
    <3>3. /\ \A p \in Person \ {q} : held'[p] = held[p] /\ directory'[p] = directory[p]
          /\ directory'[q] = claims
          /\ \A g \in SignIn!Group :
                held'[q][g] = IF g \in claims.groups \cup directory[q].groups THEN now ELSE held[q][g]
      BY <3>1 DEF SessionInv, SessionTypes
    <3>4. directory' \in [Person -> SignIn!Claims]
      BY <3>1 DEF SessionInv, SessionTypes
    <3>5. held' \in [Person -> [SignIn!Group -> Nat]]
      BY <3>1, <3>2 DEF SessionInv, SessionTypes
    <3>6. HeldInv'
      BY <3>1, <3>2, <3>3 DEF SessionInv, HeldInv
    <3>7. \A p \in Person, g \in SignIn!Group : held[p][g] <= held'[p][g]
      BY <3>2, <3>3
    <3>8. QED
      BY <3>4, <3>5, <3>6, <3>7
  <2>3. QED
    BY <2>1, <2>2
<1>4. QED
  BY <1>1, <1>2, <1>3, CookieStays DEF SessionInv, SessionTypes, LoginStands

LEMMA SessionStep ==
    ASSUME SessionInv, LoginInv, SignIn!Next \/ UNCHANGED sessions
    PROVE  SessionInv'
<1>1. LoginTypes'
  BY LoginStep DEF SessionInv
<1>2. CASE UNCHANGED sessions
  BY <1>1, <1>2 DEF sessions, SessionInv, SessionTypes, HeldInv, CodeInv, CookieInv, Finding, Deleted
<1>3. QED
  BY <1>1, <1>2, SignInStep, CallbackStep, WorldStep DEF SignIn!Next

\* What a cookie is decoded to is what a sign-in with its claims would give.
LEMMA DecodedIsCurrent == SessionInv => SignIn!PrivilegeCurrent
<1> SUFFICES ASSUME SessionInv PROVE SignIn!PrivilegeCurrent
  OBVIOUS
<1> DEFINE who == SignIn!DecodeSession(cookie)
<1>1. ASSUME cookie.source \in {"oidc", "ldap"}, now < cookie.expires
      PROVE  who.role = SignIn!IdentityFromClaims(cookie.claims, cookie.source).role
  <2>1. ~(now >= cookie.expires)
    BY <1>1 DEF SessionInv, CookieInv, LoginTypes
  <2>2. QED
    BY <1>1, <2>1 DEF SignIn!DecodeSession, SignIn!IdentityFromClaims, SignIn!SessionRole, SignIn!Refused
<1>2. ASSUME cookie.source \in {"oidc", "ldap"}, now < cookie.expires, NEW g \in cookie.claims.groups
      PROVE  now < held[cookie.claims.sub][g] + SessionTtl
  <2>1. held[cookie.claims.sub][g] \in Nat /\ now \in Nat /\ cookie.expires \in Nat
        /\ cookie.expires <= held[cookie.claims.sub][g] + SessionTtl
    BY <1>2 DEF SessionInv, CookieInv, SessionTypes, LoginTypes
  <2>2. QED
    BY <1>2, <2>1, SessionAssumption
<1>3. ASSUME cookie.source = "web-console", SignIn!Admitted(who)
      PROVE  who.role = "operator" /\ ~settings.oidc /\ ~settings.ldap
  BY <1>3 DEF SignIn!DecodeSession, SignIn!Admitted, SignIn!SessionRole, SignIn!ConsoleEnabled,
              SessionInv, CookieInv
<1>4. ASSUME cookie.source = "local-admin", SignIn!Admitted(who)
      PROVE  ~settings.institutional
  BY <1>4 DEF SignIn!DecodeSession, SignIn!Admitted
<1>5. QED
  BY <1>1, <1>2, <1>3, <1>4 DEF SignIn!PrivilegeCurrent

\* And in institutional mode its name is its owner's.
LEMMA NameIsOwners == SignIn!OwnerIsPerson
<1> SUFFICES ASSUME settings.institutional, NEW p \in Person, SignIn!Admitted(SignIn!BearerIdentity(p))
             PROVE  /\ SignIn!Admitted(SignIn!DecodeSession(cookie)) =>
                          (SignIn!DecodeSession(cookie).name = SignIn!BearerIdentity(p).name
                              <=> cookie.claims.sub = p)
                    /\ \A q \in Person \ {p} : SignIn!BearerIdentity(q).name # SignIn!BearerIdentity(p).name
  BY DEF SignIn!OwnerIsPerson
<1>1. SignIn!BearerIdentity(p).name = <<"oidc", p>>
  BY DEF SignIn!BearerIdentity, SignIn!IdentityFromClaims, SignIn!ClaimsOf, SignIn!Admitted,
         SignIn!InstitutionalOwnerName
<1>2. SignIn!Admitted(SignIn!DecodeSession(cookie)) =>
          SignIn!DecodeSession(cookie).name = <<"oidc", cookie.claims.sub>>
  BY DEF SignIn!DecodeSession, SignIn!SessionOwner, SignIn!Admitted, SignIn!InstitutionalOwnerName
<1>3. \A q \in Person : SignIn!BearerIdentity(q).name \in {<<"oidc", q>>, <<"nobody">>}
  BY DEF SignIn!BearerIdentity, SignIn!IdentityFromClaims, SignIn!ClaimsOf, SignIn!Refused,
         SignIn!InstitutionalOwnerName
<1>4. QED
  BY <1>1, <1>2, <1>3

\* A session stands for a sign-in of its owner, as to role and name, for any
\* people and any life of a session, whatever has been changed since it was
\* issued (decode_session_token against identity_from_claims).
THEOREM SessionStandsForSignIn == Spec => []SessionIsSignIn
<1> DEFINE Inv == focus = "sessions" => SessionInv /\ LoginInv
<1>1. Init => Inv
  BY LoginInit, SessionInit DEF Init
<1>2. Inv /\ [Next]_vars => Inv'
  BY SessionsFocus, LoginStep, SessionStep DEF SessionInv
<1>3. Inv => SessionIsSignIn
  BY DecodedIsCurrent, NameIsOwners DEF SessionIsSignIn, SignIn!SessionIsSignIn
<1>4. QED
  BY <1>1, <1>2, <1>3, PTL DEF Spec

\* The bounds of the numbers: time and events within their limits, the key of a
\* login no later than it could be asked for, and no more sessions of the login
\* than callbacks that have ended.
Ends(c) == IF callback[c].at = "over" THEN 1 ELSE 0

SignInBounds ==
    /\ now \in SessionTtl..(LastTick + SessionTtl) /\ events \in 0..MaxEvents
    /\ cookie.source \in {"none", "oidc", "ldap", "local-admin", "web-console"}
    /\ pending \in 0..(LastTick + SessionTtl + StateTtl)
    /\ redeemed \subseteq SignIn!Code
    /\ \A c \in SignIn!Callback : callback[c].code \in SignIn!Code \cup {0}
    /\ signedIn <= Ends(1) + Ends(2)

\* A callback that has ended does not start again.
LEMMA EndsStay ==
    ASSUME LoginTypes, SignInBounds, signedIn' = signedIn,
           \A c \in SignIn!Callback : callback[c].at = "over" => callback'[c].at = "over"
    PROVE  signedIn' <= (Ends(1) + Ends(2))'
<1>1. 1 \in SignIn!Callback /\ 2 \in SignIn!Callback
  BY DEF SignIn!Callback
<1>2. \A c \in {1, 2} : Ends(c) \in {0, 1} /\ Ends(c)' \in {0, 1} /\ Ends(c) <= Ends(c)'
  BY <1>1 DEF Ends
<1>3. signedIn \in Nat /\ signedIn <= Ends(1) + Ends(2)
  BY DEF LoginTypes, SignInBounds
<1>4. QED
  BY <1>2, <1>3

LEMMA BoundsOfSignIn ==
    ASSUME SessionInv, SignInBounds, SignIn!Next \/ UNCHANGED sessions
    PROVE  SignInBounds'
<1> USE SessionAssumption, BoundAssumption
<1>1. ASSUME UNCHANGED <<redeemed, callback, signedIn>>,
             now' \in SessionTtl..(LastTick + SessionTtl), events' \in 0..MaxEvents,
             cookie'.source \in {"none", "oidc", "ldap", "local-admin", "web-console"},
             pending' \in 0..(LastTick + SessionTtl + StateTtl)
      PROVE  SignInBounds'
  BY <1>1 DEF SignInBounds, Ends
<1>2. CASE UNCHANGED sessions
  BY <1>1, <1>2 DEF sessions, SignInBounds
<1>3. CASE \/ \E p \in Person : SignIn!LdapLogin(p)
           \/ SignIn!LocalLogin \/ SignIn!WebConsoleSession \/ SignIn!Logout
  <2>1. cookie'.source \in {"none", "ldap", "local-admin", "web-console"}
    BY <1>3 DEF SignIn!LdapLogin, SignIn!LocalLogin, SignIn!WebConsoleSession, SignIn!Logout,
                SignIn!SetSessionCookie, SignIn!NoCookie
  <2>2. UNCHANGED <<now, events, pending, redeemed, callback, signedIn>>
    BY <1>3 DEF SignIn!LdapLogin, SignIn!LocalLogin, SignIn!WebConsoleSession, SignIn!Logout,
                SignIn!World, SignIn!Login
  <2>3. QED
    BY <1>1, <2>1, <2>2 DEF SignInBounds
<1>4. CASE SignIn!OidcLogin
  <2>1. pending' = now + StateTtl /\ UNCHANGED <<now, events, cookie, redeemed, callback, signedIn>>
    BY <1>4 DEF SignIn!OidcLogin, SignIn!World
  <2>2. pending' \in 0..(LastTick + SessionTtl + StateTtl)
    BY <2>1 DEF SignInBounds
  <2>3. QED
    BY <1>1, <2>1, <2>2 DEF SignInBounds
<1>5. CASE \/ \E n \in SignIn!Code, p \in Person : SignIn!Authorize(n, p)
           \/ \E p \in Person, claims \in SignIn!Claims : SignIn!ChangePerson(p, claims)
  <2>1. /\ events < MaxEvents /\ events' = events + 1
        /\ UNCHANGED <<now, cookie, pending, redeemed, callback, signedIn>>
    BY <1>5 DEF SignIn!Authorize, SignIn!ChangePerson, SignIn!Event, SignIn!Login
  <2>2. events' \in 0..MaxEvents
    BY <2>1 DEF SignInBounds
  <2>3. QED
    BY <1>1, <2>1, <2>2 DEF SignInBounds
<1>6. CASE SignIn!Tick
  <2>1. /\ now < LastTick + SessionTtl /\ now' = now + 1
        /\ UNCHANGED <<events, cookie, pending, redeemed, callback, signedIn>>
    BY <1>6 DEF SignIn!Tick, SignIn!Login
  <2>2. now' \in SessionTtl..(LastTick + SessionTtl)
    BY <2>1 DEF SignInBounds
  <2>3. QED
    BY <1>1, <2>1, <2>2 DEF SignInBounds
<1>7. ASSUME NEW c \in SignIn!Callback, NEW n \in SignIn!Code, SignIn!CallbackRead(c, n)
      PROVE  SignInBounds'
  <2>1. /\ UNCHANGED <<now, events, cookie, pending, redeemed, signedIn>> /\ callback[c].at = "idle"
        /\ \E end : callback' = [callback EXCEPT ![c] = [at |-> end, code |-> n]]
    BY <1>7 DEF SignIn!CallbackRead, SignIn!World
  <2>2. \A b \in SignIn!Callback : /\ callback'[b].code \in SignIn!Code \cup {0}
                                   /\ callback[b].at = "over" => callback'[b].at = "over"
    BY <2>1 DEF SessionInv, LoginTypes, SignInBounds
  <2>3. signedIn' <= (Ends(1) + Ends(2))'
    BY <2>1, <2>2, EndsStay DEF SessionInv
  <2>4. QED
    BY <2>1, <2>2, <2>3 DEF SignInBounds
<1>8. ASSUME NEW c \in SignIn!Callback, SignIn!CallbackDelete(c)
      PROVE  SignInBounds'
  <2>1. /\ UNCHANGED <<now, events, cookie, redeemed, signedIn>> /\ callback[c].at = "found"
        /\ pending' \in {pending, 0} /\ \E end : callback' = [callback EXCEPT ![c].at = end]
    BY <1>8 DEF SignIn!CallbackDelete, SignIn!World, SignIn!Step, SignIn!StateAfterRead
  <2>2. \A b \in SignIn!Callback : /\ callback'[b].code \in SignIn!Code \cup {0}
                                   /\ callback[b].at = "over" => callback'[b].at = "over"
    BY <2>1 DEF SessionInv, LoginTypes, SignInBounds
  <2>3. signedIn' <= (Ends(1) + Ends(2))'
    BY <2>1, <2>2, EndsStay DEF SessionInv
  <2>4. pending' \in 0..(LastTick + SessionTtl + StateTtl)
    BY <2>1 DEF SignInBounds
  <2>5. QED
    BY <2>1, <2>2, <2>3, <2>4 DEF SignInBounds
<1>9. ASSUME NEW c \in SignIn!Callback, SignIn!CallbackFinish(c)
      PROVE  SignInBounds'
  <2>1. /\ UNCHANGED <<now, events, pending>> /\ callback[c].at = "deleted"
        /\ callback' = [callback EXCEPT ![c].at = "over"]
        /\ redeemed' \in {redeemed, redeemed \cup {callback[c].code}}
        /\ \/ UNCHANGED <<cookie, signedIn>>
           \/ cookie'.source = "oidc" /\ signedIn' = signedIn + 1
    BY <1>9 DEF SignIn!CallbackFinish, SignIn!World, SignIn!Step, SignIn!SetSessionCookie
  <2>2. \A b \in SignIn!Callback :
            /\ callback'[b].code \in SignIn!Code \cup {0}
            /\ callback'[b].at = IF b = c THEN "over" ELSE callback[b].at
    BY <2>1 DEF SessionInv, LoginTypes, SignInBounds
  <2>3. callback[c].code \in SignIn!Code
    BY <2>1 DEF SessionInv, CodeInv, Deleted
  <2>4. signedIn' <= (Ends(1) + Ends(2))'
    <3>1. CASE signedIn' = signedIn
      BY <2>2, <3>1, EndsStay DEF SessionInv
    <3>2. CASE signedIn' = signedIn + 1
      <4>1. SignIn!Callback = {1, 2}
        BY DEF SignIn!Callback
      <4>2. \A b \in {1, 2} : /\ Ends(b) \in {0, 1} /\ Ends(b)' \in {0, 1}
                              /\ b = c => Ends(b) = 0 /\ Ends(b)' = 1
                              /\ b # c => Ends(b)' = Ends(b)
        BY <2>1, <2>2, <4>1 DEF Ends
      <4>3. signedIn \in Nat /\ signedIn <= Ends(1) + Ends(2) /\ c \in {1, 2}
        BY <4>1 DEF SessionInv, LoginTypes, SignInBounds
      <4>4. QED
        BY <3>2, <4>2, <4>3
    <3>3. QED
      BY <2>1, <3>1, <3>2
  <2>5. QED
    BY <2>1, <2>2, <2>3, <2>4 DEF SignInBounds
<1>10. ASSUME NEW s \in SignIn!Settings, SignIn!Reconfigure(s)
       PROVE  SignInBounds'
  <2>1. /\ events < MaxEvents /\ events' = events + 1
        /\ UNCHANGED <<now, cookie, pending, redeemed, signedIn>>
        /\ callback' = [c \in SignIn!Callback |->
              IF callback[c].at = "idle" THEN callback[c] ELSE [callback[c] EXCEPT !.at = "over"]]
    BY <1>10 DEF SignIn!Reconfigure, SignIn!Event
  <2>2. \A b \in SignIn!Callback : /\ callback'[b].code \in SignIn!Code \cup {0}
                                   /\ callback[b].at = "over" => callback'[b].at = "over"
    BY <2>1 DEF SessionInv, LoginTypes, SignInBounds
  <2>3. signedIn' <= (Ends(1) + Ends(2))'
    BY <2>1, <2>2, EndsStay DEF SessionInv
  <2>4. events' \in 0..MaxEvents
    BY <2>1 DEF SignInBounds
  <2>5. QED
    BY <2>1, <2>2, <2>3, <2>4 DEF SignInBounds
<1>11. QED
  BY <1>2, <1>3, <1>4, <1>5, <1>6, <1>7, <1>8, <1>9, <1>10 DEF SignIn!Next

\* The variables of a sign-in have their types, and a login gives no more sessions
\* than it has callbacks, overlapping or not (complete_oidc_callback).
THEOREM SessionTypesHold == Spec => [](focus = "sessions" => SignIn!TypeOK)
<1> DEFINE Inv == focus = "sessions" => SessionInv /\ LoginInv /\ SignInBounds
<1>1. SignIn!Init => SignInBounds
  BY SessionAssumption, BoundAssumption
  DEF SignIn!Init, SignInBounds, Ends, SignIn!NoCookie, SignIn!Callback, SignIn!Code
<1>2. Init => Inv
  BY <1>1, LoginInit, SessionInit DEF Init
<1>3. Inv /\ [Next]_vars => Inv'
  <2>1. SessionInv => LoginTypes
    BY DEF SessionInv
  <2>2. QED
    BY <2>1, SessionsFocus, LoginStep, SessionStep, BoundsOfSignIn
<1>4. SessionInv /\ SignInBounds => SignIn!TypeOK
  <2> SUFFICES ASSUME SessionInv, SignInBounds
               PROVE  SignIn!TypeOK
    OBVIOUS
  <2>1. held \in [Person -> [SignIn!Group -> 0..(LastTick + SessionTtl)]]
    <3>1. \A p \in Person, g \in SignIn!Group : held[p][g] \in 0..(LastTick + SessionTtl)
      BY SessionAssumption DEF SessionInv, SessionTypes, HeldInv, SignInBounds
    <3>2. QED
      BY <3>1 DEF SessionInv, SessionTypes
  <2>2. callback \in [SignIn!Callback -> [at : {"idle", "found", "deleted", "over"},
                                          code : SignIn!Code \cup {0}]]
    BY DEF SessionInv, LoginTypes, SignInBounds
  <2>3. signedIn \in 0..SignIn!Cardinality(SignIn!Callback)
    <3>1. SignIn!Callback = {1} \cup {2} /\ 2 \notin {1}
      BY DEF SignIn!Callback
    <3>2. IsFiniteSet({1}) /\ Cardinality({1}) = 1
      BY FS_Singleton
    <3>3. Cardinality({1} \cup {2}) = 2
      BY <3>1, <3>2, FS_AddElement
    <3>4. SignIn!Cardinality(SignIn!Callback) = 2
      BY <3>1, <3>3 DEF SignIn!Cardinality, Cardinality
    <3>5. Ends(1) \in {0, 1} /\ Ends(2) \in {0, 1}
      BY DEF Ends
    <3>6. signedIn \in Nat /\ signedIn <= Ends(1) + Ends(2)
      BY DEF SessionInv, LoginTypes, SignInBounds
    <3>7. signedIn \in 0..2
      BY <3>5, <3>6
    <3>8. QED
      BY <3>4, <3>7
  <2>4. QED
    BY <2>1, <2>2, <2>3 DEF SessionInv, SessionTypes, LoginTypes, SignInBounds, SignIn!TypeOK
<1>5. Inv => (focus = "sessions" => SignIn!TypeOK)
  BY <1>4
<1>6. QED
  BY <1>2, <1>3, <1>5, PTL DEF Spec

-----------------------------------------------------------------------------
(* The words of a page.                                                    *)

\* The places of the elements that cover text in a browser, among those the
\* reader suppresses: all of them but <embed>, in order.
Places(f, covering, hiding) ==
    /\ f \in [1 .. Len(covering) -> 1 .. Len(hiding)]
    /\ \A i, k \in 1 .. Len(covering) : i < k => f[i] < f[k]
    /\ \A i \in 1 .. Len(covering) : covering[i] = hiding[f[i]] /\ covering[i] # "embed"
    /\ \A k \in 1 .. Len(hiding) : hiding[k] # "embed" => \E i \in 1 .. Len(covering) : f[i] = k

\* A sequence without its last element.
LEMMA FrontOf ==
    ASSUME NEW S, NEW s \in Seq(S), s # <<>>
    PROVE  /\ Len(s) \in Nat /\ Len(s) > 0
           /\ Len(SubSeq(s, 1, Len(s) - 1)) = Len(s) - 1
           /\ \A k \in 1 .. Len(s) - 1 : SubSeq(s, 1, Len(s) - 1)[k] = s[k]
<1>1. Len(s) \in Nat /\ Len(s) > 0 /\ \A k \in 1 .. Len(s) : s[k] \in S
  OBVIOUS
<1>2. 1 \in Int /\ Len(s) - 1 \in Int /\ \A i \in 1 .. Len(s) - 1 : s[i] \in S
  BY <1>1
<1>3. Len(SubSeq(s, 1, Len(s) - 1)) = IF 1 <= Len(s) - 1 THEN Len(s) - 1 - 1 + 1 ELSE 0
  BY <1>2, SubSeqProperties
<1>4. \A k \in 1 .. Len(s) - 1 - 1 + 1 : SubSeq(s, 1, Len(s) - 1)[k] = s[1 + k - 1]
  BY <1>2, SubSeqProperties
<1>5. Len(SubSeq(s, 1, Len(s) - 1)) = Len(s) - 1
  <2> DEFINE length == Len(SubSeq(s, 1, Len(s) - 1))
             n == Len(s)
  <2>1. n \in Nat /\ n > 0 /\ length = IF 1 <= n - 1 THEN n - 1 - 1 + 1 ELSE 0
    BY <1>1, <1>3
  <2> HIDE DEF length, n
  <2>2. length = n - 1
    BY <2>1
  <2>3. QED
    BY <2>2 DEF length, n
<1>6. \A k \in 1 .. Len(s) - 1 : SubSeq(s, 1, Len(s) - 1)[k] = s[k]
  <2>1. \A k \in 1 .. Len(s) - 1 : k \in 1 .. Len(s) - 1 - 1 + 1 /\ 1 + k - 1 = k
    BY <1>1
  <2>2. QED
    BY <1>4, <2>1
<1>7. QED
  BY <1>1, <1>5, <1>6

\* <embed> is suppressed: it covers nothing.
LEMMA PlacesEmbed ==
    ASSUME NEW S, NEW covering \in Seq(S), NEW hiding \in Seq(S), NEW f, Places(f, covering, hiding)
    PROVE  Places(f, covering, Append(hiding, "embed"))
<1> DEFINE m == Len(covering)
           n == Len(hiding)
           more == Append(hiding, "embed")
<1>1. /\ m \in Nat /\ n \in Nat /\ Len(more) = n + 1
      /\ \A k \in 1 .. n : more[k] = hiding[k]
      /\ more[n + 1] = "embed"
  OBVIOUS
<1>2. /\ f \in [1 .. m -> 1 .. n]
      /\ \A i, k \in 1 .. m : i < k => f[i] < f[k]
      /\ \A i \in 1 .. m : covering[i] = hiding[f[i]] /\ covering[i] # "embed"
      /\ \A k \in 1 .. n : hiding[k] # "embed" => \E i \in 1 .. m : f[i] = k
  BY DEF Places
<1> SUFFICES /\ f \in [1 .. m -> 1 .. n + 1]
             /\ \A i \in 1 .. m : covering[i] = more[f[i]]
             /\ \A k \in 1 .. n + 1 : more[k] # "embed" => \E i \in 1 .. m : f[i] = k
  BY <1>1, <1>2 DEF Places
<1> HIDE DEF m, n, more
<1>3. f \in [1 .. m -> 1 .. n + 1]
  BY <1>1, <1>2
<1>4. \A i \in 1 .. m : covering[i] = more[f[i]]
  BY <1>1, <1>2
<1>5. \A k \in 1 .. n + 1 : more[k] # "embed" => \E i \in 1 .. m : f[i] = k
  BY <1>1, <1>2
<1>6. QED
  BY <1>3, <1>4, <1>5

\* Any other element is suppressed.
LEMMA PlacesPush ==
    ASSUME NEW S, NEW covering \in Seq(S), NEW hiding \in Seq(S), NEW f, Places(f, covering, hiding),
           NEW tag, tag # "embed"
    PROVE  \E g : Places(g, Append(covering, tag), Append(hiding, tag))
<1> DEFINE m == Len(covering)
           n == Len(hiding)
           further == Append(covering, tag)
           more == Append(hiding, tag)
           g == [i \in 1 .. m + 1 |-> IF i = m + 1 THEN n + 1 ELSE f[i]]
<1>1. /\ m \in Nat /\ n \in Nat /\ Len(more) = n + 1 /\ Len(further) = m + 1
      /\ \A k \in 1 .. n : more[k] = hiding[k]
      /\ \A k \in 1 .. m : further[k] = covering[k]
      /\ more[n + 1] = tag /\ further[m + 1] = tag
  OBVIOUS
<1>2. /\ f \in [1 .. m -> 1 .. n]
      /\ \A i, k \in 1 .. m : i < k => f[i] < f[k]
      /\ \A i \in 1 .. m : covering[i] = hiding[f[i]] /\ covering[i] # "embed"
      /\ \A k \in 1 .. n : hiding[k] # "embed" => \E i \in 1 .. m : f[i] = k
  BY DEF Places
<1> SUFFICES /\ g \in [1 .. m + 1 -> 1 .. n + 1]
             /\ \A i, k \in 1 .. m + 1 : i < k => g[i] < g[k]
             /\ \A i \in 1 .. m + 1 : further[i] = more[g[i]] /\ further[i] # "embed"
             /\ \A k \in 1 .. n + 1 : more[k] # "embed" => \E i \in 1 .. m + 1 : g[i] = k
  <2>1. Places(g, further, more)
    BY <1>1 DEF Places
  <2>2. QED
    BY <2>1
<1> HIDE DEF m, n, more, further
<1>3. g[m + 1] = n + 1 /\ \A i \in 1 .. m : g[i] = f[i] /\ f[i] \in 1 .. n
  BY <1>1, <1>2
<1>4. g \in [1 .. m + 1 -> 1 .. n + 1]
  BY <1>1, <1>2
<1>5. \A i, k \in 1 .. m + 1 : i < k => g[i] < g[k]
  BY <1>1, <1>2, <1>3
<1>6. \A i \in 1 .. m + 1 : further[i] = more[g[i]] /\ further[i] # "embed"
  <2> SUFFICES ASSUME NEW i \in 1 .. m + 1 PROVE further[i] = more[g[i]] /\ further[i] # "embed"
    OBVIOUS
  <2>1. CASE i = m + 1
    BY <1>1, <1>3, <2>1
  <2>2. CASE i \in 1 .. m
    BY <1>1, <1>2, <1>3, <2>2
  <2>3. QED
    BY <1>1, <2>1, <2>2
<1>7. \A k \in 1 .. n + 1 : more[k] # "embed" => \E i \in 1 .. m + 1 : g[i] = k
  <2> SUFFICES ASSUME NEW k \in 1 .. n + 1, more[k] # "embed" PROVE \E i \in 1 .. m + 1 : g[i] = k
    OBVIOUS
  <2>1. CASE k = n + 1
    BY <1>1, <1>3, <2>1
  <2>2. CASE k \in 1 .. n
    <3>1. PICK i \in 1 .. m : f[i] = k
      BY <1>1, <1>2, <2>2
    <3>2. QED
      BY <1>1, <1>3, <3>1
  <2>3. QED
    BY <1>1, <2>1, <2>2
<1>8. QED
  BY <1>4, <1>5, <1>6, <1>7

\* The last suppressed element ends, and is an <embed>.
LEMMA PlacesEmbedEnds ==
    ASSUME NEW S, NEW covering \in Seq(S), NEW hiding \in Seq(S), NEW f, Places(f, covering, hiding),
           hiding # <<>>, hiding[Len(hiding)] = "embed"
    PROVE  Places(f, covering, SubSeq(hiding, 1, Len(hiding) - 1))
<1> DEFINE m == Len(covering)
           n == Len(hiding)
           less == SubSeq(hiding, 1, n - 1)
<1>1. /\ m \in Nat /\ n \in Nat /\ n > 0 /\ Len(less) = n - 1
      /\ \A k \in 1 .. n - 1 : less[k] = hiding[k]
      /\ hiding[n] = "embed"
  BY FrontOf
<1>2. /\ f \in [1 .. m -> 1 .. n]
      /\ \A i, k \in 1 .. m : i < k => f[i] < f[k]
      /\ \A i \in 1 .. m : covering[i] = hiding[f[i]] /\ covering[i] # "embed"
      /\ \A k \in 1 .. n : hiding[k] # "embed" => \E i \in 1 .. m : f[i] = k
  BY DEF Places
<1> SUFFICES /\ f \in [1 .. m -> 1 .. n - 1]
             /\ \A i \in 1 .. m : covering[i] = less[f[i]]
             /\ \A k \in 1 .. n - 1 : less[k] # "embed" => \E i \in 1 .. m : f[i] = k
  BY <1>1, <1>2 DEF Places
<1> HIDE DEF m, n, less
<1>3. \A i \in 1 .. m : f[i] \in 1 .. n - 1
  <2> SUFFICES ASSUME NEW i \in 1 .. m PROVE f[i] \in 1 .. n - 1
    OBVIOUS
  <2>1. f[i] \in 1 .. n /\ f[i] # n
    <3>1. hiding[f[i]] # "embed"
      BY <1>2
    <3>2. f[i] # n
      BY <1>1, <3>1
    <3>3. QED
      BY <1>2, <3>2
  <2>2. QED
    BY <1>1, <2>1
<1>4. f \in [1 .. m -> 1 .. n - 1]
  BY <1>2, <1>3
<1>5. \A i \in 1 .. m : covering[i] = less[f[i]]
  BY <1>1, <1>2, <1>3
<1>6. \A k \in 1 .. n - 1 : less[k] # "embed" => \E i \in 1 .. m : f[i] = k
  <2> SUFFICES ASSUME NEW k \in 1 .. n - 1, less[k] # "embed" PROVE \E i \in 1 .. m : f[i] = k
    OBVIOUS
  <2>1. k \in 1 .. n
    BY <1>1
  <2>2. hiding[k] # "embed"
    BY <1>1
  <2>3. QED
    BY <1>2, <2>1, <2>2
<1>7. QED
  BY <1>4, <1>5, <1>6

\* It ends, and is another: it is the innermost of its name that covers text.
LEMMA PlacesEnds ==
    ASSUME NEW S, NEW covering \in Seq(S), NEW hiding \in Seq(S), NEW f, Places(f, covering, hiding),
           hiding # <<>>, hiding[Len(hiding)] # "embed"
    PROVE  /\ covering # <<>> /\ covering[Len(covering)] = hiding[Len(hiding)]
           /\ \E g : Places(g, SubSeq(covering, 1, Len(covering) - 1), SubSeq(hiding, 1, Len(hiding) - 1))
<1> DEFINE m == Len(covering)
           n == Len(hiding)
           fewer == SubSeq(covering, 1, m - 1)
           less == SubSeq(hiding, 1, n - 1)
           g == [i \in 1 .. m - 1 |-> f[i]]
<1>1. /\ m \in Nat /\ n \in Nat /\ n > 0 /\ hiding[n] # "embed"
  OBVIOUS
<1>2. /\ f \in [1 .. m -> 1 .. n]
      /\ \A i, k \in 1 .. m : i < k => f[i] < f[k]
      /\ \A i \in 1 .. m : covering[i] = hiding[f[i]] /\ covering[i] # "embed"
      /\ \A k \in 1 .. n : hiding[k] # "embed" => \E i \in 1 .. m : f[i] = k
  BY DEF Places
<1>3. m > 0 /\ f[m] = n /\ covering[m] = hiding[n]
  <2> HIDE DEF m, n
  <2>1. PICK i \in 1 .. m : f[i] = n
    BY <1>1, <1>2
  <2>2. ~(i < m)
    <3>1. i < m => f[i] < f[m] /\ f[m] \in 1 .. n
      BY <1>1, <1>2
    <3>2. QED
      BY <1>1, <2>1, <3>1
  <2>3. QED
    BY <1>1, <1>2, <2>1, <2>2
<1>4. covering # <<>>
  BY <1>3
<1>5. /\ Len(less) = n - 1 /\ \A k \in 1 .. n - 1 : less[k] = hiding[k]
      /\ Len(fewer) = m - 1 /\ \A k \in 1 .. m - 1 : fewer[k] = covering[k]
  BY <1>4, FrontOf
<1>6. Places(g, fewer, less)
  <2> SUFFICES /\ g \in [1 .. m - 1 -> 1 .. n - 1]
               /\ \A i, k \in 1 .. m - 1 : i < k => g[i] < g[k]
               /\ \A i \in 1 .. m - 1 : fewer[i] = less[g[i]] /\ fewer[i] # "embed"
               /\ \A k \in 1 .. n - 1 : less[k] # "embed" => \E i \in 1 .. m - 1 : g[i] = k
    BY <1>5 DEF Places
  <2> HIDE DEF m, n, fewer, less
  <2>1. \A i \in 1 .. m - 1 : g[i] = f[i] /\ f[i] \in 1 .. n - 1
    <3> SUFFICES ASSUME NEW i \in 1 .. m - 1 PROVE f[i] \in 1 .. n - 1
      OBVIOUS
    <3>1. f[i] < f[m] /\ f[i] \in 1 .. n
      BY <1>1, <1>2, <1>3
    <3>2. QED
      BY <1>1, <1>3, <3>1
  <2>2. g \in [1 .. m - 1 -> 1 .. n - 1]
    BY <2>1
  <2>3. \A i, k \in 1 .. m - 1 : i < k => g[i] < g[k]
    BY <1>1, <1>2, <2>1
  <2>4. \A i \in 1 .. m - 1 : fewer[i] = less[g[i]] /\ fewer[i] # "embed"
    <3> SUFFICES ASSUME NEW i \in 1 .. m - 1 PROVE fewer[i] = less[g[i]] /\ fewer[i] # "embed"
      OBVIOUS
    <3>1. i \in 1 .. m /\ fewer[i] = covering[i]
      BY <1>1, <1>3, <1>5
    <3>2. less[g[i]] = hiding[f[i]]
      BY <1>5, <2>1
    <3>3. QED
      BY <1>2, <3>1, <3>2
  <2>5. \A k \in 1 .. n - 1 : less[k] # "embed" => \E i \in 1 .. m - 1 : g[i] = k
    <3> SUFFICES ASSUME NEW k \in 1 .. n - 1, less[k] # "embed" PROVE \E i \in 1 .. m - 1 : g[i] = k
      OBVIOUS
    <3>1. k \in 1 .. n /\ k # n
      BY <1>1
    <3>2. PICK i \in 1 .. m : f[i] = k
      <4>1. hiding[k] # "embed"
        BY <1>5
      <4>2. QED
        BY <1>2, <3>1, <4>1
    <3>3. i \in 1 .. m - 1
      <4>1. i # m
        BY <1>3, <3>1, <3>2
      <4>2. QED
        BY <1>1, <4>1
    <3>4. QED
      BY <2>1, <3>2, <3>3
  <2>6. QED
    BY <2>2, <2>3, <2>4, <2>5
<1>7. QED
  BY <1>3, <1>4, <1>6

\* The types the argument reads.
WordTypes ==
    /\ markup \in {"url", "chm", "html"}
    /\ hidden \in Seq(Boundaries!Hides[markup] \ Boundaries!Void[markup])
    /\ covers \in Seq(Boundaries!Hides[markup] \ Boundaries!HtmlVoid)

\* No word has been shown or dropped against the browser, as what covers text
\* there is what the reader suppresses, less <embed>.
WordInv == WordTypes /\ astray = FALSE /\ \E f : Places(f, covers, hidden)

\* The tables of the three readers.
LEMMA HidesVoid ==
    ASSUME markup \in {"url", "chm", "html"}
    PROVE  /\ Boundaries!Hides[markup] \subseteq Boundaries!Tag
           /\ Boundaries!Void[markup] \subseteq {"meta", "embed"}
           /\ "meta" \in Boundaries!Hides[markup] => "meta" \in Boundaries!Void[markup]
BY DEF Boundaries!Hides, Boundaries!Void, Boundaries!Tag, Boundaries!Shown, Boundaries!Empty, Boundaries!HtmlVoid

LEMMA HiddenTags ==
    ASSUME WordTypes
    PROVE  hidden \in Seq(Boundaries!Tag) /\ covers \in Seq(Boundaries!Tag)
<1>1. Boundaries!Hides[markup] \subseteq Boundaries!Tag
  BY HidesVoid DEF WordTypes
<1>2. QED
  BY <1>1 DEF WordTypes

LEMMA WordStands ==
    ASSUME WordInv, UNCHANGED <<markup, hidden, covers, astray>>
    PROVE  WordInv'
BY DEF WordInv, WordTypes, Places

LEMMA WordInit == Boundaries!Init => WordInv
<1> SUFFICES ASSUME Boundaries!Init PROVE WordInv
  OBVIOUS
<1>1. hidden = <<>> /\ covers = <<>> /\ astray = FALSE /\ markup \in {"url", "chm", "html"}
  BY DEF Boundaries!Init, Boundaries!Hides
<1>2. WordTypes
  BY <1>1 DEF WordTypes
<1>3. Places([i \in 1 .. 0 |-> 0], covers, hidden)
  BY <1>1 DEF Places
<1>4. QED
  BY <1>1, <1>2, <1>3 DEF WordInv

LEMMA HideStep ==
    ASSUME WordInv, NEW tag \in Boundaries!Tag, NEW slash \in BOOLEAN, Boundaries!Hide(tag, slash)
    PROVE  WordInv'
<1>0. tag \in Boundaries!Hides[markup] /\ markup \in {"url", "chm", "html"} /\ hidden \in Seq(Boundaries!Tag)
      /\ covers \in Seq(Boundaries!Tag)
  BY HiddenTags DEF Boundaries!Hide, WordInv, WordTypes
<1>1. CASE UNCHANGED <<markup, hidden, covers, astray>>
  BY <1>1, WordStands
<1>2. CASE /\ UNCHANGED <<markup, astray>>
           /\ hidden' = IF tag \in Boundaries!Void[markup] THEN hidden ELSE Append(hidden, tag)
           /\ Boundaries!Cover(tag)
  <2>1. PICK f : Places(f, covers, hidden)
    BY DEF WordInv
  <2>2. CASE tag \in Boundaries!Void[markup]
    <3>1. hidden' = hidden /\ covers' = covers
      BY <1>0, <1>2, <2>2, HidesVoid DEF Boundaries!Cover, Boundaries!HtmlVoid
    <3>2. QED
      BY <1>2, <3>1, WordStands
  <2>3. CASE tag \notin Boundaries!Void[markup] /\ tag = "embed"
    <3>1. hidden' = Append(hidden, "embed") /\ covers' = covers
      BY <1>2, <2>3 DEF Boundaries!Cover, Boundaries!HtmlVoid
    <3>2. WordTypes'
      BY <1>0, <1>2, <2>3, <3>1 DEF WordInv, WordTypes
    <3>3. Places(f, covers', hidden')
      BY <1>0, <2>1, <3>1, PlacesEmbed
    <3>4. QED
      BY <1>2, <3>2, <3>3 DEF WordInv
  <2>4. CASE tag \notin Boundaries!Void[markup] /\ tag # "embed"
    <3>1. hidden' = Append(hidden, tag) /\ covers' = Append(covers, tag)
      BY <1>0, <1>2, <2>4, HidesVoid DEF Boundaries!Cover, Boundaries!HtmlVoid
    <3>2. WordTypes'
      <4>1. tag \notin Boundaries!HtmlVoid
        BY <1>0, <2>4, HidesVoid DEF Boundaries!HtmlVoid
      <4>2. QED
        BY <1>0, <1>2, <2>4, <3>1, <4>1 DEF WordInv, WordTypes
    <3>3. \E g : Places(g, covers', hidden')
      BY <1>0, <2>1, <2>4, <3>1, PlacesPush
    <3>4. QED
      BY <1>2, <3>2, <3>3 DEF WordInv
  <2>5. QED
    BY <2>2, <2>3, <2>4
<1>3. QED
  BY <1>1, <1>2 DEF Boundaries!Hide, Boundaries!Refuse, Boundaries!Go

LEMMA CloseHiddenStep ==
    ASSUME WordInv, NEW tag, Boundaries!CloseHidden(tag)
    PROVE  WordInv'
<1>0. markup \in {"url", "chm", "html"} /\ hidden \in Seq(Boundaries!Tag) /\ covers \in Seq(Boundaries!Tag)
  BY HiddenTags DEF WordInv, WordTypes
<1>1. CASE UNCHANGED <<markup, hidden, covers, astray>>
  BY <1>1, WordStands
<1>2. CASE /\ hidden # <<>> /\ Boundaries!Last(hidden) = tag
           /\ UNCHANGED <<markup, astray>>
           /\ hidden' = Boundaries!Front(hidden) /\ Boundaries!Uncover(tag)
  <2>1. PICK f : Places(f, covers, hidden)
    BY DEF WordInv
  <2>2. hidden' = SubSeq(hidden, 1, Len(hidden) - 1) /\ hidden[Len(hidden)] = tag
    BY <1>2 DEF Boundaries!Front, Boundaries!Last
  <2>3. hidden' \in Seq(Boundaries!Hides[markup] \ Boundaries!Void[markup])
    BY <1>2, <2>2 DEF WordInv, WordTypes
  <2>4. CASE tag = "embed"
    <3>1. ~Boundaries!Contains(covers, tag)
      BY <2>1, <2>4 DEF Boundaries!Contains, Places
    <3>2. covers' = covers
      BY <1>2, <3>1 DEF Boundaries!Uncover
    <3>3. Places(f, covers', hidden')
      BY <1>0, <1>2, <2>1, <2>2, <2>4, <3>2, PlacesEmbedEnds
    <3>4. QED
      BY <1>0, <1>2, <2>3, <3>2, <3>3 DEF WordInv, WordTypes
  <2>5. CASE tag # "embed"
    <3> DEFINE m == Len(covers)
    <3>1. /\ covers # <<>> /\ covers[m] = tag
          /\ \E g : Places(g, SubSeq(covers, 1, m - 1), SubSeq(hidden, 1, Len(hidden) - 1))
      BY <1>0, <1>2, <2>1, <2>2, <2>5, PlacesEnds
    <3>2. m \in Nat /\ m > 0
      BY <1>0, <3>1
    <3>3. Boundaries!Contains(covers, tag)
      BY <3>1, <3>2 DEF Boundaries!Contains
    <3>4. Boundaries!SelectLastInSeq(covers, LAMBDA c : c = tag) = m
      <4> DEFINE I == {i \in 1 .. m : covers[i] = tag}
      <4>1. m \in I /\ \A i \in I : m >= i
        BY <3>1, <3>2
      <4>2. Boundaries!Max(I) = m
        <5> HIDE DEF I
        <5>1. I \subseteq Nat
          BY DEF I
        <5>2. \A x \in I : (\A y \in I : x >= y) => x = m
          BY <4>1, <5>1, <3>2
        <5>3. QED
          BY <4>1, <5>2 DEF Boundaries!Max
      <4>3. QED
        BY <4>1, <4>2 DEF Boundaries!SelectLastInSeq
    <3>5. covers' = SubSeq(covers, 1, m - 1)
      BY <1>2, <3>3, <3>4 DEF Boundaries!Uncover
    <3>6. covers' \in Seq(Boundaries!Hides[markup] \ Boundaries!HtmlVoid)
      BY <3>2, <3>5 DEF WordInv, WordTypes
    <3>7. QED
      BY <1>0, <1>2, <2>2, <2>3, <3>1, <3>5, <3>6 DEF WordInv, WordTypes
  <2>6. QED
    BY <2>4, <2>5
<1>3. QED
  BY <1>1, <1>2 DEF Boundaries!CloseHidden, Boundaries!Refuse, Boundaries!Go

\* A text is shown, or dropped, with the browser.
LEMMA DataStep ==
    ASSUME WordInv, NEW to, Boundaries!Data(to)
    PROVE  WordInv'
<1>1. PICK f : Places(f, covers, hidden)
  BY DEF WordInv
<1>2. hidden \in Seq(Boundaries!Tag) /\ covers \in Seq(Boundaries!Tag)
  BY HiddenTags DEF WordInv, WordTypes
<1>3. ASSUME ~Boundaries!Contains(hidden, "embed") PROVE (hidden = <<>>) <=> (covers = <<>>)
  <2>1. \A k \in 1 .. Len(hidden) : \E i \in 1 .. Len(covers) : f[i] = k
    BY <1>1, <1>3 DEF Places, Boundaries!Contains
  <2>2. \A i \in 1 .. Len(covers) : f[i] \in 1 .. Len(hidden)
    BY <1>1 DEF Places
  <2>3. Len(hidden) \in Nat /\ Len(covers) \in Nat
    BY <1>2
  <2>4. Len(hidden) = 0 <=> Len(covers) = 0
    BY <2>1, <2>2, <2>3
  <2>5. QED
    BY <1>2, <2>4
<1>4. UNCHANGED <<markup, hidden, covers>>
  BY DEF Boundaries!Data, Boundaries!Go
<1>5. astray' = FALSE
  BY <1>3 DEF Boundaries!Data, WordInv
<1>6. QED
  BY <1>4, <1>5, WordStands DEF WordInv, WordTypes, Places

LEMMA WordStep == WordInv /\ [Boundaries!Next]_html => WordInv'
<1> SUFFICES ASSUME WordInv, [Boundaries!Next]_html PROVE WordInv'
  OBVIOUS
<1>1. CASE UNCHANGED html
  BY <1>1, WordStands DEF html
<1>2. ASSUME NEW tag \in Boundaries!Tag, NEW slash \in BOOLEAN, Boundaries!Start(tag, slash)
      PROVE  WordInv'
  <2>1. CASE Boundaries!Hide(tag, slash)
    BY <2>1, HideStep
  <2>2. CASE Boundaries!Skip(tag) \/ Boundaries!Show(tag, slash)
    <3>1. UNCHANGED <<markup, hidden, covers, astray>>
      BY <2>2 DEF Boundaries!Skip, Boundaries!Show, Boundaries!Refuse, Boundaries!Go
    <3>2. QED
      BY <3>1, WordStands
  <2>3. QED
    BY <1>2, <2>1, <2>2 DEF Boundaries!Start
<1>3. ASSUME NEW tag \in Boundaries!Tag \cup {"a"}, Boundaries!End(tag)
      PROVE  WordInv'
  <2>1. CASE Boundaries!CloseHidden(tag)
    BY <2>1, CloseHiddenStep
  <2>2. CASE Boundaries!CloseShown(tag)
    <3>1. UNCHANGED <<markup, hidden, covers, astray>>
      BY <2>2 DEF Boundaries!CloseShown, Boundaries!Go
    <3>2. QED
      BY <3>1, WordStands
  <2>3. QED
    BY <1>3, <2>1, <2>2 DEF Boundaries!End
<1>4. ASSUME NEW known_ \in BOOLEAN, NEW to \in Boundaries!Topics, Boundaries!Link(known_, to)
      PROVE  WordInv'
  <2>1. UNCHANGED <<markup, hidden, covers, astray>>
    BY <1>4 DEF Boundaries!Link, Boundaries!Refuse, Boundaries!Go
  <2>2. QED
    BY <2>1, WordStands
<1>5. ASSUME NEW image \in Boundaries!Picture, Boundaries!DrawImage(image)
      PROVE  WordInv'
  <2>1. UNCHANGED <<markup, hidden, covers, astray>>
    BY <1>5 DEF Boundaries!DrawImage, Boundaries!Refuse
  <2>2. QED
    BY <2>1, WordStands
<1>6. ASSUME NEW to \in {Boundaries!Spaces, Boundaries!Word}, Boundaries!Data(to)
      PROVE  WordInv'
  BY <1>6, DataStep
<1>7. CASE Boundaries!Finish
  <2>1. UNCHANGED <<markup, hidden, covers, astray>>
    BY <1>7 DEF Boundaries!Finish, Boundaries!Refuse
  <2>2. QED
    BY <2>1, WordStands
<1>8. QED
  BY <1>1, <1>2, <1>3, <1>4, <1>5, <1>6, <1>7 DEF Boundaries!Next

LEMMA HtmlFocus == [Next]_vars => /\ focus = "html" => Boundaries!Next \/ UNCHANGED html
                                  /\ UNCHANGED focus
BY DEF Next, vars

\* No finished document has lost a word a browser would show, or shows one that
\* a suppressed element hides, however deep its elements are nested (the URL,
\* CHM and HTML readers).
THEOREM NoWordIsLost == Spec => []NothingLost
<1> DEFINE Inv == focus = "html" => WordInv
<1>1. Init => Inv
  BY WordInit DEF Init
<1>2. Inv /\ [Next]_vars => Inv'
  BY HtmlFocus, WordStep
<1>3. Inv => NothingLost
  BY DEF NothingLost, Boundaries!NothingLost, WordInv
<1>4. QED
  BY <1>1, <1>2, <1>3, PTL DEF Spec

-----------------------------------------------------------------------------
(* The reader and the parser behind it.  What the reader has open is        *)
(* written down as Places wants it, an element it never emitted as "embed", *)
(* which no reader shows.                                                   *)
Element == Boundaries!Tag \cup {"a", "section", "h2", "img"}
Opened  == [tag : Boundaries!Shown \cup {"a"}, out : BOOLEAN]
Piece   == [form : {"open", "close", "text", "nothing"}, tag : Element \cup {"text", "none"}, to : Nat]

Standing(inside, elements) ==
    [i \in 1 .. Len(elements) + 1 |->
        IF i = 1 THEN (IF inside THEN "section" ELSE "embed")
        ELSE IF elements[i - 1].out THEN elements[i - 1].tag ELSE "embed"]

\* The sections there may be: one for each chapter up to this one.
Sections(inside, number) == {t \in Boundaries!Topics : t < number \/ (inside /\ t = number)}

Parser == [stack : Seq(Element), topics : SUBSET Boundaries!Topics, links : SUBSET Boundaries!Topics,
           pictures : Nat, printable : BOOLEAN,
           why : {"none", "element", "depth", "unbalanced", "pictures", "links", "blank"}]

\* A CHM alone may be refused, for its depth or its pictures.
Bearable == {"none"} \cup IF markup = "chm" THEN {"depth", "pictures"} ELSE {}

Within(stack, standing) ==
    \E f \in [1 .. Len(stack) -> 1 .. Len(standing)] : Places(f, stack, standing)

\* The second parser has open what the reader has emitted and not yet ended; it
\* has seen a text if the reader has emitted one.
Follows(b, standing, topics, printed) ==
    /\ b \in Parser /\ b.why \in Bearable /\ b.topics \subseteq topics
    /\ markup = "url" => b.pictures = 0 /\ b.links = {}
    /\ b.why = "none" => Within(b.stack, standing) /\ (printed => b.printable)

ReadingTypes ==
    /\ markup \in {"url", "chm", "html"} /\ chapter \in Boundaries!Topics
    /\ said \in BOOLEAN /\ wrapped \in BOOLEAN /\ opened \in Seq(Opened)
    /\ stage \in {"reading", "refused", "done"}

\* A URL is not divided into chapters and not read deeper than Depth; of a CHM
\* nothing has been emitted outside a section.
ReadingInv ==
    /\ Follows(boundary, Standing(wrapped, opened), Sections(wrapped, chapter), said)
    /\ markup = "url" =>
         ~wrapped /\ Len(opened) <= Depth /\ \A i \in 1 .. Len(opened) : opened[i].tag \in Boundaries!Shown
    /\ markup = "chm" => IF wrapped THEN said ELSE \A i \in 1 .. Len(opened) : ~opened[i].out

AgreeInv ==
    /\ ReadingTypes /\ Boundaries!BoundaryAgrees
    /\ markup = "html" => boundary = Boundaries!Fresh /\ opened = <<>>
    /\ markup # "html" /\ stage = "reading" => ReadingInv

-----------------------------------------------------------------------------
(* What the second parser makes of a sequence of pieces: FoldLeft is a      *)
(* recursive function on sets of positions, which exists (AllFold), and it  *)
(* comes to giving it one piece after the other (FoldRuns).                 *)
Fold(b, s) == Boundaries!FoldLeft(Boundaries!Accept, b, s)

Top(t) == CHOOSE x \in t : \A y \in t : x >= y
Folds(g, b, s, S) ==
    g = [t \in SUBSET S |-> IF t = {} THEN b ELSE Boundaries!Accept(g[t \ {Top(t)}], s[Top(t)])]
Folder(b, s, S) == CHOOSE g : Folds(g, b, s, S)
FoldOf(b, s, S) == Folder(b, s, S)[S]

LEMMA FoldIsFolder == ASSUME NEW b, NEW s PROVE Fold(b, s) = FoldOf(b, s, DOMAIN s)
BY DEF Fold, Boundaries!FoldLeft, Boundaries!MapThenFoldSet, Boundaries!Max, FoldOf, Folder, Folds, Top

\* A set of numbers has a least one.
LEMMA SmallestNumber ==
    ASSUME NEW T, T \subseteq Nat, T # {}
    PROVE  \E m \in T : \A k \in T : m <= k
<1>1. PICK n \in T : TRUE
  OBVIOUS
<1> DEFINE U == 0 .. n
           Below == {s \in SUBSET U : \E k \in T : k <= n /\ s = 0 .. k}
<1>2. IsFiniteSet(U) /\ Below \subseteq SUBSET U /\ U \in Below
  BY <1>1, FS_Interval
<1>3. PICK s \in Below : \A t \in Below : t \subseteq s => t = s
  <2> HIDE DEF U, Below
  <2>1. QED
    BY <1>2, SmallestSet
<1>4. PICK m \in T : m <= n /\ s = 0 .. m
  BY <1>3
<1>5. ASSUME NEW k \in T, k < m PROVE FALSE
  <2>1. 0 .. k \in Below /\ 0 .. k \subseteq s
    BY <1>1, <1>4, <1>5
  <2>2. 0 .. k = 0 .. m
    BY <1>3, <1>4, <2>1
  <2>3. m \in 0 .. m /\ m \notin 0 .. k
    BY <1>5
  <2>4. QED
    BY <2>2, <2>3
<1>6. QED
  BY <1>4, <1>5

\* A set of positions has a last one.
LEMMA TopIn ==
    ASSUME NEW n \in Nat, NEW t \in SUBSET (1 .. n), t # {}
    PROVE  Top(t) \in t /\ \A y \in t : Top(t) >= y
<1> DEFINE T == {m \in 0 .. n : \A y \in t : y <= m}
<1>1. T \subseteq Nat /\ n \in T
  OBVIOUS
<1>2. PICK m \in T : \A k \in T : m <= k
  BY <1>1, SmallestNumber
<1>3. m \in t
  <2> SUFFICES ASSUME m \notin t PROVE FALSE
    OBVIOUS
  <2>1. PICK y \in t : TRUE
    OBVIOUS
  <2>2. m > 0 /\ m - 1 \in 0 .. n
    BY <1>2, <2>1
  <2>3. \A z \in t : z <= m - 1
    BY <1>2
  <2>4. QED
    BY <1>2, <2>2, <2>3
<1>4. \A y \in t : m >= y
  BY <1>2
<1>5. QED
  BY <1>3, <1>4 DEF Top

\* The recursive function exists for every set of positions, and those of two
\* sets agree where both are defined.
FoldAgrees(b, s, S) ==
    Folds(Folder(b, s, S), b, s, S) /\ \A t \in SUBSET S : Folder(b, s, S)[t] = FoldOf(b, s, t)

LEMMA FoldUnfold ==
    ASSUME NEW b, NEW s, NEW S, FoldAgrees(b, s, S)
    PROVE  FoldOf(b, s, S) = IF S = {} THEN b ELSE Boundaries!Accept(FoldOf(b, s, S \ {Top(S)}), s[Top(S)])
<1>1. Folder(b, s, S)[S] = IF S = {} THEN b ELSE Boundaries!Accept(Folder(b, s, S)[S \ {Top(S)}], s[Top(S)])
  BY DEF FoldAgrees, Folds
<1>2. Folder(b, s, S)[S \ {Top(S)}] = FoldOf(b, s, S \ {Top(S)})
  BY DEF FoldAgrees
<1>3. QED
  BY <1>1, <1>2 DEF FoldOf

LEMMA AllFold ==
    ASSUME NEW U, IsFiniteSet(U), \A t \in SUBSET U : t # {} => Top(t) \in t,
           NEW b, NEW s, NEW S \in SUBSET U
    PROVE  FoldAgrees(b, s, S)
<1> DEFINE Split == {R \in SUBSET U : ~FoldAgrees(b, s, R)}
<1> SUFFICES ASSUME Split # {} PROVE FALSE
  OBVIOUS
<1>1. PICK R \in SUBSET U : ~FoldAgrees(b, s, R) /\ \A t \in SUBSET R : t # R => FoldAgrees(b, s, t)
  <2>1. PICK R \in Split : \A t \in Split : t \subseteq R => t = R
    <3>1. Split \subseteq SUBSET U
      OBVIOUS
    <3> HIDE DEF Split
    <3>2. QED
      BY <3>1, SmallestSet
  <2>2. QED
    BY <2>1
<1>2. \A t \in SUBSET R : t # {} => Top(t) \in t
  OBVIOUS
<1> DEFINE Rest(t) == IF t = {} THEN b ELSE Boundaries!Accept(FoldOf(b, s, t \ {Top(t)}), s[Top(t)])
<1>3. \A t \in SUBSET R : t # R => FoldOf(b, s, t) = Rest(t)
  BY <1>1, FoldUnfold
<1> DEFINE g == [t \in SUBSET R |-> IF t = R THEN Rest(R) ELSE FoldOf(b, s, t)]
<1>4. Folds(g, b, s, R)
  <2>1. \A t \in SUBSET R : g[t] = IF t = {} THEN b ELSE Boundaries!Accept(g[t \ {Top(t)}], s[Top(t)])
    <3> SUFFICES ASSUME NEW t \in SUBSET R
                 PROVE  g[t] = IF t = {} THEN b ELSE Boundaries!Accept(g[t \ {Top(t)}], s[Top(t)])
      OBVIOUS
    <3>1. g[t] = Rest(t)
      BY <1>3
    <3>2. t # {} => g[t \ {Top(t)}] = FoldOf(b, s, t \ {Top(t)})
      BY <1>2
    <3>3. QED
      BY <3>1, <3>2
  <2>2. g = [t \in SUBSET R |-> g[t]]
    OBVIOUS
  <2>3. QED
    BY <2>1, <2>2 DEF Folds
<1>5. Folds(Folder(b, s, R), b, s, R)
  BY <1>4 DEF Folder
<1>6. \A t \in SUBSET R : t # R => Folder(b, s, R)[t] = FoldOf(b, s, t)
  <2> DEFINE Bad == {t \in SUBSET R : t # R /\ Folder(b, s, R)[t] # FoldOf(b, s, t)}
  <2> SUFFICES ASSUME Bad # {} PROVE FALSE
    OBVIOUS
  <2>1. PICK t \in Bad : \A u \in Bad : u \subseteq t => u = t
    <3>1. Bad \subseteq SUBSET U
      OBVIOUS
    <3> HIDE DEF Bad
    <3>2. QED
      BY <3>1, SmallestSet
  <2>2. t \in SUBSET R /\ t # R /\ Folder(b, s, R)[t] # FoldOf(b, s, t)
    BY <2>1
  <2>3. Folder(b, s, R)[t] = IF t = {} THEN b ELSE Boundaries!Accept(Folder(b, s, R)[t \ {Top(t)}], s[Top(t)])
    BY <1>5, <2>2 DEF Folds
  <2>4. t # {} => Folder(b, s, R)[t \ {Top(t)}] = FoldOf(b, s, t \ {Top(t)})
    BY <1>2, <2>1, <2>2
  <2>5. QED
    BY <1>3, <2>2, <2>3, <2>4
<1>7. Folder(b, s, R)[R] = FoldOf(b, s, R)
  BY DEF FoldOf
<1>8. QED
  BY <1>1, <1>5, <1>6, <1>7 DEF FoldAgrees

LEMMA FoldStep ==
    ASSUME NEW U, IsFiniteSet(U), \A t \in SUBSET U : t # {} => Top(t) \in t,
           NEW b, NEW s, NEW S \in SUBSET U
    PROVE  FoldOf(b, s, S) = IF S = {} THEN b ELSE Boundaries!Accept(FoldOf(b, s, S \ {Top(S)}), s[Top(S)])
<1>1. FoldAgrees(b, s, S)
  BY AllFold
<1>2. QED
  BY <1>1, FoldUnfold

\* The parser after each piece.
Runs(r, b, s) ==
    r[0] = b /\ \A i \in 1 .. Len(s) : r[i] = Boundaries!Accept(r[i - 1], s[i])

LEMMA FoldRuns ==
    ASSUME NEW S, NEW s \in Seq(S), NEW b
    PROVE  \E r : Runs(r, b, s) /\ Fold(b, s) = r[Len(s)]
<1> DEFINE n == Len(s)
           r == [i \in 0 .. n |-> FoldOf(b, s, 1 .. i)]
<1>1. n \in Nat /\ DOMAIN s = 1 .. n
  OBVIOUS
<1> HIDE DEF n
<1>2. \A i \in 0 .. n : FoldOf(b, s, 1 .. i) = IF 1 .. i = {} THEN b
         ELSE Boundaries!Accept(FoldOf(b, s, (1 .. i) \ {Top(1 .. i)}), s[Top(1 .. i)])
  <2>0. IsFiniteSet(1 .. n)
    BY <1>1, FS_Interval
  <2>1. ASSUME NEW t \in SUBSET (1 .. n), t # {} PROVE Top(t) \in t
    BY <1>1, <2>1, TopIn
  <2> DEFINE U == 1 .. n
  <2>2. IsFiniteSet(U) /\ \A t \in SUBSET U : t # {} => Top(t) \in t
    BY <2>0, <2>1
  <2> HIDE DEF U
  <2>3. ASSUME NEW t \in SUBSET U
        PROVE  FoldOf(b, s, t) = IF t = {} THEN b ELSE Boundaries!Accept(FoldOf(b, s, t \ {Top(t)}), s[Top(t)])
    BY <2>2, FoldStep
  <2>4. \A i \in 0 .. n : 1 .. i \in SUBSET U
    BY <1>1 DEF U
  <2>5. QED
    BY <2>3, <2>4
<1>3. ASSUME NEW i \in 1 .. n PROVE r[i] = Boundaries!Accept(r[i - 1], s[i])
  <2>1. i \in Nat /\ 1 .. i \in SUBSET (1 .. i) /\ i \in 1 .. i
    BY <1>1
  <2>2. Top(1 .. i) \in 1 .. i /\ Top(1 .. i) >= i
    BY <2>1, TopIn
  <2>3. Top(1 .. i) = i /\ (1 .. i) \ {i} = 1 .. i - 1 /\ 1 .. i # {}
    BY <2>1, <2>2
  <2>4. i \in 0 .. n /\ i - 1 \in 0 .. n
    BY <1>1
  <2>5. QED
    BY <1>2, <2>3, <2>4
<1>4. r[0] = b
  <2>1. 1 .. 0 = {} /\ 0 \in 0 .. n
    BY <1>1
  <2>2. QED
    BY <1>2, <2>1
<1>5. Fold(b, s) = r[n]
  BY <1>1, FoldIsFolder
<1>6. QED
  BY <1>3, <1>4, <1>5 DEF Runs, n

\* And nothing else comes out.
LEMMA RunsFold ==
    ASSUME NEW S, NEW s \in Seq(S), NEW b, NEW r, Runs(r, b, s)
    PROVE  Fold(b, s) = r[Len(s)]
<1> DEFINE n == Len(s)
<1>1. PICK q : Runs(q, b, s) /\ Fold(b, s) = q[n]
  BY FoldRuns
<1>2. n \in Nat
  OBVIOUS
<1> DEFINE Bad == {i \in 0 .. n : q[i] # r[i]}
<1>3. Bad = {}
  <2> SUFFICES ASSUME Bad # {} PROVE FALSE
    OBVIOUS
  <2>1. PICK i \in Bad : \A k \in Bad : i <= k
    <3>1. Bad \subseteq Nat
      BY <1>2
    <3> HIDE DEF Bad
    <3>2. QED
      BY <3>1, SmallestNumber
  <2> HIDE DEF n
  <2>2. CASE i = 0
    BY <1>1, <2>1, <2>2 DEF Runs
  <2>3. CASE i > 0
    <3>1. i \in 1 .. n /\ i - 1 \in 0 .. n /\ ~(i <= i - 1)
      BY <1>2, <2>1, <2>3
    <3>2. q[i - 1] = r[i - 1]
      BY <2>1, <3>1
    <3>3. QED
      BY <1>1, <2>1, <3>1, <3>2 DEF Runs, n
  <2>4. QED
    BY <1>2, <2>1, <2>2, <2>3
<1>4. n \in 0 .. n
  BY <1>2
<1>5. QED
  BY <1>1, <1>3, <1>4

\* Two sequences are given one after the other.
LEMMA FoldConcat ==
    ASSUME NEW S, NEW s \in Seq(S), NEW t \in Seq(S), NEW b
    PROVE  Fold(b, s \o t) = Fold(Fold(b, s), t)
<1> DEFINE m == Len(s)
           n == Len(t)
           st == s \o t
<1>1. PICK r : Runs(r, b, st) /\ Fold(b, st) = r[Len(st)]
  <2>1. st \in Seq(S)
    OBVIOUS
  <2>2. QED
    BY <2>1, FoldRuns
<1>2. /\ m \in Nat /\ n \in Nat /\ Len(st) = m + n
      /\ \A i \in 1 .. m : st[i] = s[i]
      /\ \A i \in 1 .. n : st[m + i] = t[i]
  BY ConcatProperties
<1> HIDE DEF st
<1>3. Runs(r, b, s)
  <2>1. \A i \in 1 .. m : i \in 1 .. m + n
    BY <1>2
  <2>2. QED
    BY <1>1, <1>2, <2>1 DEF Runs
<1>4. r[m] = Fold(b, s)
  BY <1>3, RunsFold
<1> DEFINE q == [i \in 0 .. n |-> r[m + i]]
<1>5. Runs(q, r[m], t)
  <2> HIDE DEF m, n
  <2>1. q[0] = r[m]
    BY <1>2
  <2>2. ASSUME NEW i \in 1 .. n PROVE q[i] = Boundaries!Accept(q[i - 1], t[i])
    <3>1. m + i \in 1 .. m + n /\ m + i - 1 = m + (i - 1) /\ i \in 0 .. n /\ i - 1 \in 0 .. n
      BY <1>2
    <3>2. r[m + i] = Boundaries!Accept(r[m + i - 1], st[m + i])
      BY <1>1, <1>2, <3>1 DEF Runs
    <3>3. QED
      BY <1>2, <3>1, <3>2
  <2>3. QED
    BY <2>1, <2>2 DEF Runs, n
<1>6. q[n] = Fold(r[m], t)
  BY <1>5, RunsFold
<1>7. q[n] = r[m + n]
  BY <1>2
<1>8. QED
  BY <1>1, <1>2, <1>4, <1>6, <1>7 DEF st

LEMMA FoldNone == ASSUME NEW b PROVE Fold(b, <<>>) = b
<1>1. <<>> \in Seq({}) /\ Len(<<>>) = 0
  OBVIOUS
<1>2. PICK r : Runs(r, b, <<>>) /\ Fold(b, <<>>) = r[Len(<<>>)]
  BY <1>1, FoldRuns
<1>3. QED
  BY <1>1, <1>2 DEF Runs

LEMMA FoldOne == ASSUME NEW b, NEW p PROVE Fold(b, <<p>>) = Boundaries!Accept(b, p)
<1> DEFINE s == <<p>>
<1>1. s \in Seq({p}) /\ Len(s) = 1 /\ s[1] = p
  OBVIOUS
<1> HIDE DEF s
<1>2. PICK r : Runs(r, b, s) /\ Fold(b, s) = r[Len(s)]
  BY <1>1, FoldRuns
<1>3. r[1] = Boundaries!Accept(r[0], p) /\ r[0] = b
  <2>1. 1 \in 1 .. Len(s) /\ 1 - 1 = 0
    BY <1>1
  <2>2. QED
    BY <1>1, <1>2, <2>1 DEF Runs
<1>4. QED
  BY <1>1, <1>2, <1>3 DEF s

LEMMA FoldTwo ==
    ASSUME NEW b, NEW p, NEW q
    PROVE  Fold(b, <<p, q>>) = Boundaries!Accept(Boundaries!Accept(b, p), q)
<1>1. <<p>> \in Seq({p, q}) /\ <<q>> \in Seq({p, q})
  OBVIOUS
<1>2. Fold(b, <<p>> \o <<q>>) = Fold(Fold(b, <<p>>), <<q>>)
  BY <1>1, FoldConcat
<1>3. <<p, q>> = <<p>> \o <<q>>
  <2> DEFINE s == <<p>> \o <<q>>
             t == <<p, q>>
  <2>1. s \in Seq({p, q}) /\ Len(s) = 2 /\ s[1] = p /\ s[2] = q
    <3>1. Len(<<p>>) = 1 /\ Len(<<q>>) = 1 /\ <<p>>[1] = p /\ <<q>>[1] = q
      OBVIOUS
    <3>2. QED
      BY <1>1, <3>1, ConcatProperties
  <2>2. t \in Seq({p, q}) /\ Len(t) = 2 /\ t[1] = p /\ t[2] = q
    OBVIOUS
  <2> HIDE DEF s, t
  <2>3. s = t
    BY <2>1, <2>2, SeqEqual
  <2>4. QED
    BY <2>3 DEF s, t
<1>4. QED
  BY <1>2, <1>3, FoldOne

-----------------------------------------------------------------------------
(* One piece after the other: the parser still follows the reader.          *)
Refusals == {"element", "depth", "unbalanced", "pictures", "links", "blank"}

\* The URL reader has not emitted the page itself, nor more than so many elements.
Shallow(standing, most) == markup = "url" => standing # <<>> /\ standing[1] = "embed" /\ Len(standing) <= most

\* What has been refused is refused whatever comes.
LEMMA RefusedStays ==
    ASSUME NEW b, NEW piece, NEW standing, NEW topics, NEW printed, Follows(b, standing, topics, printed),
           b.why # "none", NEW after, NEW more, topics \subseteq more, NEW said_
    PROVE  Follows(Boundaries!Accept(b, piece), after, more, said_)
BY DEF Follows, Boundaries!Accept

\* An element the reader never emitted does not stand on the parser's stack.
LEMMA PlacesShort ==
    ASSUME NEW stack \in Seq(Element), NEW standing \in Seq(Element), NEW f, Places(f, stack, standing),
           standing # <<>>, standing[1] = "embed"
    PROVE  Len(stack) <= Len(standing) - 1
<1> DEFINE m == Len(stack)
           n == Len(standing)
<1>1. m \in Nat /\ n \in Nat /\ n > 0
  OBVIOUS
<1>2. /\ f \in [1 .. m -> 1 .. n]
      /\ \A i, k \in 1 .. m : i < k => f[i] < f[k]
      /\ \A i \in 1 .. m : f[i] # 1
  BY DEF Places
<1> HIDE DEF m, n
<1> DEFINE Bad == {i \in 1 .. m : ~(f[i] >= i + 1)}
<1>3. Bad = {}
  <2> SUFFICES ASSUME Bad # {} PROVE FALSE
    OBVIOUS
  <2>1. PICK i \in Bad : \A k \in Bad : i <= k
    <3>1. Bad \subseteq Nat
      BY <1>1
    <3> HIDE DEF Bad
    <3>2. QED
      BY <3>1, SmallestNumber
  <2>2. CASE i = 1
    <3>1. f[i] \in 1 .. n /\ f[i] # 1
      BY <1>2, <2>1
    <3>2. QED
      BY <1>1, <2>1, <2>2, <3>1
  <2>3. CASE i # 1
    <3>1. i \in 1 .. m /\ i - 1 \in 1 .. m /\ ~(i <= i - 1) /\ i - 1 < i
      BY <1>1, <2>1, <2>3
    <3>2. f[i - 1] >= i - 1 + 1
      BY <2>1, <3>1
    <3>3. f[i - 1] < f[i] /\ f[i] \in 1 .. n /\ f[i - 1] \in 1 .. n
      BY <1>2, <3>1
    <3>4. ~(f[i] >= i + 1)
      BY <2>1
    <3>5. ASSUME NEW x \in Nat, NEW y \in Nat, x >= i - 1 + 1, x < y, i \in Nat PROVE y >= i + 1
      BY <3>5
    <3> HIDE DEF Bad
    <3>6. f[i - 1] \in Nat /\ f[i] \in Nat /\ i \in Nat
      BY <1>1, <3>1, <3>3
    <3>7. QED
      BY <3>2, <3>3, <3>4, <3>5, <3>6
  <2>4. QED
    BY <2>2, <2>3
<1>4. CASE m = 0
  BY <1>1, <1>4 DEF m, n
<1>5. CASE m > 0
  <2>1. m \in 1 .. m
    BY <1>1, <1>5
  <2>2. f[m] >= m + 1 /\ f[m] \in 1 .. n
    BY <1>2, <1>3, <2>1
  <2>3. m <= n - 1
    BY <1>1, <2>2
  <2>4. QED
    BY <2>3 DEF m, n
<1>6. QED
  BY <1>1, <1>4, <1>5

LEMMA WithinShort ==
    ASSUME NEW stack \in Seq(Element), NEW standing \in Seq(Element), Within(stack, standing),
           NEW most \in Nat, Shallow(standing, most + 1)
    PROVE  markup = "url" => Len(stack) <= most
<1>1. PICK f : Places(f, stack, standing)
  BY DEF Within
<1>2. CASE markup = "url"
  <2>1. Len(stack) <= Len(standing) - 1 /\ Len(standing) <= most + 1
    BY <1>1, <1>2, PlacesShort DEF Shallow
  <2> DEFINE m == Len(stack)
             n == Len(standing)
  <2>2. m \in Nat /\ n \in Nat /\ m <= n - 1 /\ n <= most + 1
    BY <2>1
  <2> HIDE DEF m, n
  <2>3. m <= most
    BY <2>2
  <2>4. QED
    BY <2>3 DEF m
<1>3. QED
  BY <1>2

\* An element with content is emitted.
LEMMA AcceptPush ==
    ASSUME markup \in {"url", "chm"},
           NEW b, NEW standing \in Seq(Element), NEW topics, NEW printed, Follows(b, standing, topics, printed),
           NEW tag \in Boundaries!Shown \cup {"a", "h2"}, tag \in {"a", "h2"} => markup = "chm",
           NEW to \in Boundaries!Topics \cup {0}, tag = "a" => to \in Boundaries!Topics,
           Shallow(standing, Depth)
    PROVE  Follows(Boundaries!Accept(b, Boundaries!Open(tag, to)), Append(standing, tag), topics, printed)
<1> DEFINE piece == Boundaries!Open(tag, to)
           c == Boundaries!Accept(b, piece)
           pushed == Append(b.stack, tag)
<1>1. CASE b.why # "none"
  BY <1>1, RefusedStays
<1>2. CASE b.why = "none"
  <2>1. /\ b \in Parser /\ b.topics \subseteq topics /\ Within(b.stack, standing)
        /\ markup = "url" => b.pictures = 0 /\ b.links = {}
        /\ printed => b.printable
    BY <1>2 DEF Follows
  <2>2. piece.form = "open" /\ piece.tag = tag /\ piece.to = to /\ tag \notin {"br", "img", "section"}
    BY DEF Boundaries!Open, Boundaries!Shown
  <2>3. tag \in Element /\ tag # "embed" /\ tag \in Boundaries!Permitted
    BY DEF Element, Boundaries!Permitted, Boundaries!Tag, Boundaries!Shown
  <2>4. b.stack \in Seq(Element) /\ b.pictures \in Nat
    BY <2>1 DEF Parser
  <2>5. c = [b EXCEPT !.stack = pushed, !.pictures = b.pictures + 0, !.topics = @,
                      !.links = IF tag = "a" THEN @ \cup {to} ELSE @,
                      !.why = IF b.pictures + 0 > MaxPictures THEN "pictures"
                              ELSE IF Len(pushed) > Depth THEN "depth" ELSE @]
    BY <1>2, <2>2, <2>3 DEF Boundaries!Accept, Boundaries!AcceptOpen, Boundaries!Empty
  <2>6. /\ c.stack = pushed /\ c.pictures = b.pictures /\ c.topics = b.topics
        /\ c.links = (IF tag = "a" THEN b.links \cup {to} ELSE b.links)
        /\ c.why = IF b.pictures > MaxPictures THEN "pictures" ELSE IF Len(pushed) > Depth THEN "depth" ELSE "none"
        /\ c.printable = b.printable
        /\ c \in Parser
    <3>1. pushed \in Seq(Element)
      BY <2>3, <2>4
    <3> DEFINE refs == IF tag = "a" THEN b.links \cup {to} ELSE b.links
               why == IF b.pictures > MaxPictures THEN "pictures" ELSE IF Len(pushed) > Depth THEN "depth" ELSE "none"
    <3>2. refs \in SUBSET Boundaries!Topics
      BY <2>1 DEF Parser
    <3>3. why \in {"none", "depth", "pictures"}
      OBVIOUS
    <3>4. b.pictures + 0 = b.pictures
      BY <2>4
    <3>5. c = [b EXCEPT !.stack = pushed, !.pictures = b.pictures, !.topics = b.topics, !.links = refs, !.why = why]
      BY <1>2, <2>1, <2>5, <3>4 DEF Parser
    <3> HIDE DEF pushed, refs, why, c, piece
    <3>6. /\ c.stack = pushed /\ c.pictures = b.pictures /\ c.topics = b.topics /\ c.links = refs /\ c.why = why
          /\ c.printable = b.printable /\ c \in Parser
      BY <2>1, <3>1, <3>2, <3>3, <3>5 DEF Parser
    <3>7. QED
      BY <3>6 DEF refs, why
  <2> HIDE DEF c, piece
  <2>7. markup = "url" => Len(pushed) <= Depth /\ ~(b.pictures > MaxPictures)
    <3>1. CASE markup = "url" /\ Depth = 0
      <4>1. Len(standing) <= 0 /\ Len(standing) \in Nat /\ Len(standing) # 0
        BY <3>1 DEF Shallow
      <4>2. QED
        BY <4>1
    <3>2. CASE markup = "url" /\ Depth # 0
      <4>1. Depth - 1 \in Nat /\ Shallow(standing, Depth - 1 + 1)
        BY <3>2, ReaderAssumption
      <4>2. Len(b.stack) <= Depth - 1
        BY <2>1, <2>4, <3>2, <4>1, WithinShort
      <4>3. Len(pushed) = Len(b.stack) + 1
        BY <2>3, <2>4
      <4>4. Len(b.stack) \in Nat
        BY <2>4
      <4>5. QED
        BY <2>1, <3>2, <4>2, <4>3, <4>4, ReaderAssumption
    <3>3. QED
      BY <3>1, <3>2
  <2>8. Within(pushed, Append(standing, tag))
    <3>1. PICK f : Places(f, b.stack, standing)
      BY <2>1 DEF Within
    <3>2. \E g : Places(g, pushed, Append(standing, tag))
      BY <2>3, <2>4, <3>1, PlacesPush
    <3>3. QED
      BY <3>2 DEF Within, Places
  <2>9. c.why \in Bearable
    <3>1. Len(pushed) \in Nat
      BY <2>3, <2>4 DEF pushed
    <3>2. QED
      BY <2>6, <2>7, <3>1, ReaderAssumption DEF Bearable
  <2>10. markup = "url" => c.pictures = 0 /\ c.links = {}
    BY <2>1, <2>6
  <2>11. Follows(c, Append(standing, tag), topics, printed)
    BY <2>1, <2>6, <2>8, <2>9, <2>10 DEF Follows
  <2>12. QED
    BY <2>11 DEF c, piece
<1>3. QED
  BY <1>1, <1>2

\* An element without content.
LEMMA AcceptEmpty ==
    ASSUME markup \in {"url", "chm"},
           NEW b, NEW standing \in Seq(Element), NEW topics, NEW printed, Follows(b, standing, topics, printed),
           NEW tag \in Boundaries!Empty \cup {"img"}, tag = "img" => markup = "chm",
           Shallow(standing, Depth + 1)
    PROVE  Follows(Boundaries!Accept(b, Boundaries!Open(tag, 0)), standing, topics, printed)
<1> DEFINE piece == Boundaries!Open(tag, 0)
           c == Boundaries!Accept(b, piece)
           images == b.pictures + (IF tag = "img" THEN 1 ELSE 0)
<1>1. CASE b.why # "none"
  BY <1>1, RefusedStays
<1>2. CASE b.why = "none"
  <2>1. /\ b \in Parser /\ b.topics \subseteq topics /\ Within(b.stack, standing)
        /\ markup = "url" => b.pictures = 0 /\ b.links = {}
        /\ printed => b.printable
    BY <1>2 DEF Follows
  <2>2. piece.form = "open" /\ piece.tag = tag /\ piece.to = 0 /\ tag \notin {"a", "section"}
    BY DEF Boundaries!Open, Boundaries!Empty
  <2>3. tag \in Boundaries!Permitted
    BY DEF Boundaries!Permitted
  <2>4. b.stack \in Seq(Element) /\ b.pictures \in Nat /\ images \in Nat
    BY <2>1 DEF Parser
  <2>5. c = [b EXCEPT !.stack = b.stack, !.pictures = images, !.topics = @, !.links = @,
                      !.why = IF images > MaxPictures THEN "pictures"
                              ELSE IF Len(b.stack) > Depth THEN "depth" ELSE @]
    BY <1>2, <2>2, <2>3 DEF Boundaries!Accept, Boundaries!AcceptOpen
  <2>6. /\ c.stack = b.stack /\ c.pictures = images /\ c.topics = b.topics /\ c.links = b.links
        /\ c.why = IF images > MaxPictures THEN "pictures" ELSE IF Len(b.stack) > Depth THEN "depth" ELSE "none"
        /\ c.printable = b.printable
        /\ c \in Parser
    <3> HIDE DEF images
    <3>1. QED
      BY <1>2, <2>1, <2>4, <2>5 DEF Parser
  <2> HIDE DEF c, piece
  <2>7. markup = "url" => Len(b.stack) <= Depth /\ images = 0
    BY <2>1, <2>4, WithinShort, ReaderAssumption
  <2>8. Len(b.stack) \in Nat
    BY <2>4
  <2>9. c.why \in Bearable
    BY <2>6, <2>7, <2>8, ReaderAssumption DEF Bearable
  <2>10. Follows(c, standing, topics, printed)
    BY <2>1, <2>6, <2>7, <2>9 DEF Follows
  <2>11. QED
    BY <2>10 DEF c, piece
<1>3. QED
  BY <1>1, <1>2

\* A text.
LEMMA AcceptText ==
    ASSUME NEW b, NEW standing, NEW topics, NEW printed, Follows(b, standing, topics, printed),
           NEW to, NEW said_, said_ => printed \/ to = Boundaries!Word
    PROVE  Follows(Boundaries!Accept(b, Boundaries!Text(to)), standing, topics, said_)
<1> DEFINE c == Boundaries!Accept(b, Boundaries!Text(to))
<1>1. CASE b.why # "none"
  BY <1>1, RefusedStays
<1>2. CASE b.why = "none"
  <2>1. c = [b EXCEPT !.printable = @ \/ to = Boundaries!Word]
    BY <1>2 DEF Boundaries!Accept, Boundaries!Text
  <2>2. /\ b \in Parser /\ b.why \in Bearable /\ b.topics \subseteq topics /\ Within(b.stack, standing)
        /\ markup = "url" => b.pictures = 0 /\ b.links = {}
        /\ printed => b.printable
    BY <1>2 DEF Follows
  <2>3. /\ c.stack = b.stack /\ c.pictures = b.pictures /\ c.topics = b.topics /\ c.links = b.links
        /\ c.why = b.why /\ (c.printable <=> (b.printable \/ to = Boundaries!Word)) /\ c \in Parser
    BY <2>1, <2>2 DEF Parser
  <2> HIDE DEF c
  <2>4. Follows(c, standing, topics, said_)
    BY <2>2, <2>3 DEF Follows
  <2>5. QED
    BY <2>4 DEF c
<1>3. QED
  BY <1>1, <1>2

\* The end of the innermost element, or of one that was never emitted.
EndingOf(tag) == IF tag = "embed" THEN Boundaries!Nothing ELSE Boundaries!Close(tag)

LEMMA AcceptEnding ==
    ASSUME NEW b, NEW standing \in Seq(Element), NEW topics, NEW printed, Follows(b, standing, topics, printed),
           standing # <<>>
    PROVE  Follows(Boundaries!Accept(b, EndingOf(standing[Len(standing)])),
                   SubSeq(standing, 1, Len(standing) - 1), topics, printed)
<1> DEFINE tag == standing[Len(standing)]
           c == Boundaries!Accept(b, EndingOf(tag))
           less == SubSeq(standing, 1, Len(standing) - 1)
<1>1. CASE b.why # "none"
  BY <1>1, RefusedStays
<1>2. CASE b.why = "none"
  <2>1. /\ b \in Parser /\ b.why \in Bearable /\ b.topics \subseteq topics
        /\ markup = "url" => b.pictures = 0 /\ b.links = {}
        /\ printed => b.printable
    BY <1>2 DEF Follows
  <2>2. PICK f : Places(f, b.stack, standing)
    BY <1>2 DEF Follows, Within
  <2>3. b.stack \in Seq(Element)
    BY <2>1 DEF Parser
  <2>4. CASE tag = "embed"
    <3>1. c = b
      BY <1>2, <2>4 DEF EndingOf, Boundaries!Nothing, Boundaries!Accept
    <3>2. Places(f, b.stack, less)
      BY <2>2, <2>3, <2>4, PlacesEmbedEnds
    <3>3. Within(b.stack, less)
      BY <3>2 DEF Within, Places
    <3> HIDE DEF less, c
    <3>4. Follows(c, less, topics, printed)
      BY <2>1, <3>1, <3>3 DEF Follows
    <3>5. QED
      BY <3>4 DEF less, c
  <2>5. CASE tag # "embed"
    <3> DEFINE fewer == SubSeq(b.stack, 1, Len(b.stack) - 1)
    <3>1. /\ b.stack # <<>> /\ b.stack[Len(b.stack)] = tag
          /\ \E g : Places(g, fewer, less)
      BY <2>2, <2>3, <2>5, PlacesEnds
    <3>2. c = [b EXCEPT !.stack = fewer]
      BY <1>2, <2>5, <3>1
         DEF EndingOf, Boundaries!Close, Boundaries!Accept, Boundaries!AcceptClose, Boundaries!Front, Boundaries!Last
    <3>3. fewer \in Seq(Element)
      BY <2>3, <3>1
    <3>4. Within(fewer, less)
      BY <3>1 DEF Within, Places
    <3> HIDE DEF fewer
    <3>5. /\ c.stack = fewer /\ c.pictures = b.pictures /\ c.topics = b.topics /\ c.links = b.links
          /\ c.why = b.why /\ c.printable = b.printable /\ c \in Parser
      BY <2>1, <3>2, <3>3 DEF Parser
    <3> HIDE DEF c, less
    <3>6. Follows(c, less, topics, printed)
      BY <2>1, <3>4, <3>5 DEF Follows
    <3>7. QED
      BY <3>6 DEF c, less
  <2>6. QED
    BY <2>4, <2>5
<1>3. QED
  BY <1>1, <1>2

\* The ends of several, from the innermost out.
LEMMA AcceptEndings ==
    ASSUME NEW b, NEW standing \in Seq(Element), NEW topics, NEW printed, Follows(b, standing, topics, printed),
           NEW pieces \in Seq(Piece), Len(pieces) <= Len(standing),
           \A i \in 1 .. Len(pieces) : pieces[i] = EndingOf(standing[Len(standing) + 1 - i])
    PROVE  Follows(Fold(b, pieces), SubSeq(standing, 1, Len(standing) - Len(pieces)), topics, printed)
<1> DEFINE n == Len(standing)
           k == Len(pieces)
           outer(i) == SubSeq(standing, 1, n - i)
<1>1. PICK r : Runs(r, b, pieces) /\ Fold(b, pieces) = r[k]
  BY FoldRuns
<1>2. n \in Nat /\ k \in Nat /\ k <= n
  OBVIOUS
<1>3. ASSUME NEW i \in 0 .. n
      PROVE  /\ outer(i) \in Seq(Element) /\ Len(outer(i)) = n - i
             /\ \A j \in 1 .. n - i : outer(i)[j] = standing[j]
  <2>1. 1 \in Int /\ n - i \in Int /\ \A j \in 1 .. n - i : standing[j] \in Element
    <3>1. \A j \in 1 .. n : standing[j] \in Element
      OBVIOUS
    <3> HIDE DEF n
    <3>2. QED
      BY <1>2, <3>1
  <2> HIDE DEF n
  <2>2. /\ outer(i) \in Seq(Element)
        /\ Len(outer(i)) = IF 1 <= n - i THEN n - i - 1 + 1 ELSE 0
        /\ \A j \in 1 .. n - i - 1 + 1 : outer(i)[j] = standing[1 + j - 1]
    BY <2>1, SubSeqProperties
  <2> HIDE DEF outer
  <2>3. Len(outer(i)) = n - i
    <3> DEFINE length == Len(outer(i))
    <3>1. length = IF 1 <= n - i THEN n - i - 1 + 1 ELSE 0
      BY <2>2
    <3> HIDE DEF length
    <3>2. length = n - i
      BY <1>2, <3>1
    <3>3. QED
      BY <3>2 DEF length
  <2>4. \A j \in 1 .. n - i : outer(i)[j] = standing[j]
    <3>1. \A j \in 1 .. n - i : j \in 1 .. n - i - 1 + 1 /\ 1 + j - 1 = j
      BY <1>2
    <3>2. QED
      BY <2>2, <3>1
  <2>5. QED
    BY <2>2, <2>3, <2>4
<1>4. outer(0) = standing
  <2>1. 0 \in 0 .. n /\ n - 0 = n
    BY <1>2
  <2> HIDE DEF outer, n
  <2>2. outer(0) \in Seq(Element) /\ Len(outer(0)) = n /\ \A j \in 1 .. n : outer(0)[j] = standing[j]
    BY <1>3, <2>1
  <2> USE DEF n
  <2>3. QED
    BY <2>2, SeqEqual
<1>5. ASSUME NEW i \in 1 .. n
      PROVE  outer(i) = SubSeq(outer(i - 1), 1, Len(outer(i - 1)) - 1)
  <2>1. i \in 0 .. n /\ i - 1 \in 0 .. n /\ n - (i - 1) = n - i + 1 /\ n - i + 1 > 0 /\ n - i + 1 - 1 = n - i
    BY <1>2
  <2> DEFINE u == outer(i - 1)
             v == outer(i)
             l == n - i + 1
  <2>2. /\ u \in Seq(Element) /\ Len(u) = l /\ (\A j \in 1 .. l : u[j] = standing[j])
        /\ v \in Seq(Element) /\ Len(v) = l - 1 /\ (\A j \in 1 .. l - 1 : v[j] = standing[j])
        /\ l \in Nat /\ l > 0
    <3> HIDE DEF outer, n
    <3>1. /\ outer(i - 1) \in Seq(Element) /\ Len(outer(i - 1)) = n - (i - 1)
          /\ \A j \in 1 .. n - (i - 1) : outer(i - 1)[j] = standing[j]
      BY <1>3, <2>1
    <3>2. /\ outer(i) \in Seq(Element) /\ Len(outer(i)) = n - i
          /\ \A j \in 1 .. n - i : outer(i)[j] = standing[j]
      BY <1>3, <2>1
    <3>3. l \in Nat /\ l > 0 /\ l - 1 = n - i /\ l = n - (i - 1)
      BY <1>2, <2>1
    <3> HIDE DEF l
    <3>4. QED
      BY <3>1, <3>2, <3>3
  <2> HIDE DEF outer, u, v, l
  <2>3. u # <<>>
    BY <2>2
  <2> DEFINE w == SubSeq(u, 1, Len(u) - 1)
  <2>4. Len(w) = l - 1 /\ \A j \in 1 .. l - 1 : w[j] = u[j]
    BY <2>2, <2>3, FrontOf
  <2>5. w \in Seq(Element)
    BY <2>2, <2>3
  <2> HIDE DEF w
  <2>6. \A j \in 1 .. l - 1 : v[j] = w[j]
    <3>1. \A j \in 1 .. l - 1 : j \in 1 .. l
      BY <2>2
    <3>2. QED
      BY <2>2, <2>4, <3>1
  <2>7. v = w
    BY <2>2, <2>4, <2>5, <2>6, SeqEqual
  <2>8. QED
    BY <2>7 DEF u, v, w
<1> HIDE DEF outer, n, k
<1> DEFINE Bad == {i \in 0 .. k : ~Follows(r[i], outer(i), topics, printed)}
<1>6. Bad = {}
  <2> SUFFICES ASSUME Bad # {} PROVE FALSE
    OBVIOUS
  <2>1. PICK i \in Bad : \A j \in Bad : i <= j
    <3>1. Bad \subseteq Nat
      BY <1>2
    <3> HIDE DEF Bad
    <3>2. QED
      BY <3>1, SmallestNumber
  <2>2. CASE i = 0
    BY <1>1, <1>4, <2>1, <2>2 DEF Runs
  <2>3. CASE i > 0
    <3>1. /\ i \in 1 .. k /\ i \in 1 .. n /\ i - 1 \in 0 .. k /\ i - 1 \in 0 .. n /\ ~(i <= i - 1)
          /\ n - (i - 1) = n + 1 - i /\ n + 1 - i \in 1 .. n + 1 - i /\ n + 1 - i > 0
      BY <1>2, <2>1, <2>3
    <3> DEFINE u == outer(i - 1)
    <3>2. Follows(r[i - 1], u, topics, printed)
      BY <2>1, <3>1
    <3>3. u \in Seq(Element) /\ Len(u) = n + 1 - i /\ u[n + 1 - i] = standing[n + 1 - i]
      BY <1>3, <3>1
    <3>4. u # <<>>
      BY <3>1, <3>3
    <3>5. r[i] = Boundaries!Accept(r[i - 1], EndingOf(standing[n + 1 - i]))
      BY <1>1, <3>1 DEF Runs, n, k
    <3> HIDE DEF u
    <3>6. Follows(r[i], SubSeq(u, 1, Len(u) - 1), topics, printed)
      BY <3>2, <3>3, <3>4, <3>5, AcceptEnding
    <3>7. QED
      BY <1>5, <2>1, <3>1, <3>6 DEF u
  <2>4. QED
    BY <1>2, <2>1, <2>2, <2>3
<1>7. k \in 0 .. k
  BY <1>2
<1>8. QED
  BY <1>1, <1>6, <1>7 DEF outer, n, k

-----------------------------------------------------------------------------
(* What the reader has open.                                                *)
Mark(e) == IF e.out THEN e.tag ELSE "embed"

LEMMA StandingIs ==
    ASSUME NEW inside \in BOOLEAN, NEW elements \in Seq(Opened)
    PROVE  /\ Standing(inside, elements) \in Seq(Element)
           /\ Len(Standing(inside, elements)) = Len(elements) + 1
           /\ Standing(inside, elements)[1] = IF inside THEN "section" ELSE "embed"
           /\ \A i \in 1 .. Len(elements) : Standing(inside, elements)[i + 1] = Mark(elements[i])
<1> DEFINE n == Len(elements)
           s == Standing(inside, elements)
<1>1. n \in Nat /\ \A i \in 1 .. n : elements[i] \in Opened
  OBVIOUS
<1>2. s = [i \in 1 .. n + 1 |-> IF i = 1 THEN (IF inside THEN "section" ELSE "embed") ELSE Mark(elements[i - 1])]
  BY DEF Standing, Mark
<1> HIDE DEF n, s
<1>3. \A i \in 1 .. n : Mark(elements[i]) \in Element
  BY <1>1 DEF Mark, Opened, Element, Boundaries!Tag, Boundaries!Shown, Boundaries!HtmlVoid
<1>4. \A i \in 1 .. n + 1 : i = 1 \/ i - 1 \in 1 .. n
  BY <1>1
<1>5. "section" \in Element /\ "embed" \in Element
  BY DEF Element, Boundaries!Tag, Boundaries!HtmlVoid
<1>6. s \in [1 .. n + 1 -> Element]
  BY <1>2, <1>3, <1>4, <1>5
<1>7. s \in Seq(Element) /\ Len(s) = n + 1
  BY <1>1, <1>6
<1>8. 1 \in 1 .. n + 1 /\ \A i \in 1 .. n : i + 1 \in 1 .. n + 1 /\ i + 1 # 1 /\ i + 1 - 1 = i
  BY <1>1
<1>9. s[1] = (IF inside THEN "section" ELSE "embed") /\ \A i \in 1 .. n : s[i + 1] = Mark(elements[i])
  BY <1>2, <1>8
<1>10. QED
  BY <1>7, <1>9 DEF n, s

\* Two lists of what is open are the same if their elements are.
LEMMA SameStanding ==
    ASSUME NEW inside \in BOOLEAN, NEW elements \in Seq(Opened), NEW s \in Seq(Element),
           Len(s) = Len(elements) + 1, s[1] = IF inside THEN "section" ELSE "embed",
           \A i \in 1 .. Len(elements) : s[i + 1] = Mark(elements[i])
    PROVE  s = Standing(inside, elements)
<1> DEFINE n == Len(elements)
           t == Standing(inside, elements)
<1>1. /\ t \in Seq(Element) /\ Len(t) = n + 1 /\ t[1] = (IF inside THEN "section" ELSE "embed")
      /\ \A i \in 1 .. n : t[i + 1] = Mark(elements[i])
  BY StandingIs
<1>2. n \in Nat
  OBVIOUS
<1> HIDE DEF n, t
<1>3. ASSUME NEW i \in 1 .. n + 1 PROVE s[i] = t[i]
  <2>1. CASE i = 1
    BY <1>1, <2>1
  <2>2. CASE i # 1
    <3>1. i - 1 \in 1 .. n /\ i - 1 + 1 = i
      BY <1>2, <2>2
    <3>2. s[i - 1 + 1] = Mark(elements[i - 1]) /\ t[i - 1 + 1] = Mark(elements[i - 1])
      BY <1>1, <3>1 DEF n
    <3>3. QED
      BY <3>1, <3>2
  <2>3. QED
    BY <2>1, <2>2
<1>4. Len(s) = n + 1
  BY DEF n
<1>5. s = t
  BY <1>1, <1>3, <1>4, SeqEqual
<1>6. QED
  BY <1>5 DEF t

LEMMA StandingPush ==
    ASSUME NEW inside \in BOOLEAN, NEW elements \in Seq(Opened), NEW e \in Opened
    PROVE  Standing(inside, Append(elements, e)) = Append(Standing(inside, elements), Mark(e))
<1> DEFINE n == Len(elements)
           t == Standing(inside, elements)
           s == Append(t, Mark(e))
           further == Append(elements, e)
<1>1. /\ t \in Seq(Element) /\ Len(t) = n + 1 /\ t[1] = (IF inside THEN "section" ELSE "embed")
      /\ \A i \in 1 .. n : t[i + 1] = Mark(elements[i])
  BY StandingIs
<1>2. /\ n \in Nat /\ further \in Seq(Opened) /\ Len(further) = n + 1 /\ further[n + 1] = e
      /\ \A i \in 1 .. n : further[i] = elements[i]
  OBVIOUS
<1> HIDE DEF n, t, further
<1>3. Mark(e) \in Element
  BY DEF Mark, Opened, Element, Boundaries!Tag, Boundaries!Shown, Boundaries!HtmlVoid
<1>4. /\ s \in Seq(Element) /\ Len(s) = n + 2 /\ s[n + 2] = Mark(e)
      /\ \A i \in 1 .. n + 1 : s[i] = t[i]
  <2> HIDE DEF Mark
  <2>1. s \in Seq(Element) /\ Len(s) = Len(t) + 1 /\ s[Len(t) + 1] = Mark(e) /\ \A i \in 1 .. Len(t) : s[i] = t[i]
    BY <1>1, <1>3
  <2>2. Len(t) + 1 = n + 2
    BY <1>1, <1>2
  <2>3. QED
    BY <1>1, <2>1, <2>2
<1> HIDE DEF s
<1>5. ASSUME NEW i \in 1 .. n + 1 PROVE s[i + 1] = Mark(further[i])
  <2>1. CASE i = n + 1
    <3>1. i + 1 = n + 2
      BY <1>2, <2>1
    <3>2. QED
      BY <1>2, <1>4, <2>1, <3>1
  <2>2. CASE i # n + 1
    <3>1. i \in 1 .. n /\ i + 1 \in 1 .. n + 1
      BY <1>2, <2>2
    <3>2. QED
      BY <1>1, <1>2, <1>4, <3>1
  <2>3. QED
    BY <2>1, <2>2
<1>6. Len(s) = Len(further) + 1 /\ s[1] = IF inside THEN "section" ELSE "embed"
  <2>1. 1 \in 1 .. n + 1 /\ n + 1 + 1 = n + 2
    BY <1>2
  <2>2. QED
    BY <1>1, <1>2, <1>4, <2>1
<1>7. s = Standing(inside, further)
  BY <1>2, <1>4, <1>5, <1>6, SameStanding
<1>8. QED
  BY <1>7 DEF s, t, further

LEMMA StandingFront ==
    ASSUME NEW inside \in BOOLEAN, NEW elements \in Seq(Opened), NEW k \in 0 .. Len(elements)
    PROVE  /\ SubSeq(elements, 1, k) \in Seq(Opened) /\ Len(SubSeq(elements, 1, k)) = k
           /\ \A i \in 1 .. k : SubSeq(elements, 1, k)[i] = elements[i]
           /\ Standing(inside, SubSeq(elements, 1, k)) = SubSeq(Standing(inside, elements), 1, k + 1)
<1> DEFINE n == Len(elements)
           t == Standing(inside, elements)
           s == SubSeq(t, 1, k + 1)
           fewer == SubSeq(elements, 1, k)
<1>1. /\ t \in Seq(Element) /\ Len(t) = n + 1 /\ t[1] = (IF inside THEN "section" ELSE "embed")
      /\ \A i \in 1 .. n : t[i + 1] = Mark(elements[i])
  BY StandingIs
<1>2. n \in Nat /\ k \in Nat /\ k <= n /\ \A i \in 1 .. n : elements[i] \in Opened
  OBVIOUS
<1> HIDE DEF t
<1>3. fewer \in Seq(Opened) /\ Len(fewer) = k /\ \A i \in 1 .. k : fewer[i] = elements[i]
  <2> HIDE DEF n
  <2>1. 1 \in Int /\ k \in Int /\ \A i \in 1 .. k : elements[i] \in Opened
    BY <1>2
  <2>2. /\ fewer \in Seq(Opened) /\ Len(fewer) = IF 1 <= k THEN k - 1 + 1 ELSE 0
        /\ \A i \in 1 .. k - 1 + 1 : fewer[i] = elements[1 + i - 1]
    BY <2>1, SubSeqProperties
  <2> HIDE DEF fewer
  <2>3. k - 1 + 1 = k /\ (1 <= k \/ k = 0) /\ \A i \in 1 .. k : 1 + i - 1 = i
    BY <1>2
  <2>4. QED
    BY <2>2, <2>3
<1>4. s \in Seq(Element) /\ Len(s) = k + 1 /\ \A i \in 1 .. k + 1 : s[i] = t[i]
  <2> HIDE DEF n
  <2>1. \A i \in 1 .. n + 1 : t[i] \in Element
    BY <1>1
  <2>2. 1 \in Int /\ k + 1 \in Int /\ \A i \in 1 .. k + 1 : t[i] \in Element
    BY <1>2, <2>1
  <2>3. /\ s \in Seq(Element) /\ Len(s) = IF 1 <= k + 1 THEN k + 1 - 1 + 1 ELSE 0
        /\ \A i \in 1 .. k + 1 - 1 + 1 : s[i] = t[1 + i - 1]
    BY <2>2, SubSeqProperties
  <2> HIDE DEF s
  <2>4. k + 1 - 1 + 1 = k + 1 /\ 1 <= k + 1 /\ \A i \in 1 .. k + 1 : 1 + i - 1 = i
    BY <1>2
  <2>5. QED
    BY <2>3, <2>4
<1> HIDE DEF n, s, fewer
<1>5. Len(s) = Len(fewer) + 1 /\ s[1] = IF inside THEN "section" ELSE "embed"
  BY <1>1, <1>2, <1>3, <1>4
<1>6. \A i \in 1 .. Len(fewer) : s[i + 1] = Mark(fewer[i])
  <2> SUFFICES ASSUME NEW i \in 1 .. k PROVE s[i + 1] = Mark(fewer[i])
    BY <1>3
  <2>1. i + 1 \in 1 .. k + 1 /\ i \in 1 .. n
    BY <1>2
  <2>2. QED
    BY <1>1, <1>3, <1>4, <2>1
<1>7. s = Standing(inside, fewer)
  BY <1>3, <1>4, <1>5, <1>6, SameStanding
<1>8. QED
  BY <1>3, <1>7 DEF s, t, fewer

\* Nothing emitted is open: the parser's stack is empty.
LEMMA NothingStands ==
    ASSUME NEW stack \in Seq(Element), NEW standing, Within(stack, standing),
           \A i \in 1 .. Len(standing) : standing[i] = "embed"
    PROVE  stack = <<>>
<1>1. PICK f : Places(f, stack, standing)
  BY DEF Within
<1>2. \A i \in 1 .. Len(stack) : f[i] \in 1 .. Len(standing) /\ stack[i] = standing[f[i]] /\ stack[i] # "embed"
  BY <1>1 DEF Places
<1>3. Len(stack) \in Nat /\ ~(1 \in 1 .. Len(stack))
  BY <1>2
<1>4. Len(stack) = 0
  BY <1>3
<1>5. QED
  BY <1>4

LEMMA NothingWithin ==
    ASSUME NEW standing, \A i \in 1 .. Len(standing) : standing[i] = "embed"
    PROVE  Within(<<>>, standing)
<1>1. Len(<<>>) = 0
  OBVIOUS
<1>2. Places([i \in 1 .. 0 |-> 0], <<>>, standing)
  BY <1>1 DEF Places
<1>3. QED
  BY <1>2 DEF Within, Places

LEMMA AllHidden ==
    ASSUME NEW elements \in Seq(Opened), \A i \in 1 .. Len(elements) : ~elements[i].out
    PROVE  \A i \in 1 .. Len(Standing(FALSE, elements)) : Standing(FALSE, elements)[i] = "embed"
<1> DEFINE n == Len(elements)
           t == Standing(FALSE, elements)
<1>1. n \in Nat /\ Len(t) = n + 1 /\ t[1] = "embed" /\ \A i \in 1 .. n : t[i + 1] = "embed"
  <2>1. \A i \in 1 .. n : Mark(elements[i]) = "embed"
    BY DEF Mark
  <2>2. n \in Nat /\ FALSE \in BOOLEAN
    OBVIOUS
  <2>3. Len(t) = n + 1 /\ t[1] = (IF FALSE THEN "section" ELSE "embed") /\ \A i \in 1 .. n : t[i + 1] = Mark(elements[i])
    BY <2>2, StandingIs
  <2> HIDE DEF n, t
  <2>4. QED
    BY <2>1, <2>2, <2>3
<1> HIDE DEF n, t
<1>2. ASSUME NEW i \in 1 .. n + 1 PROVE t[i] = "embed"
  <2>1. CASE i = 1
    BY <1>1, <2>1
  <2>2. CASE i # 1
    <3>1. i - 1 \in 1 .. n /\ i - 1 + 1 = i
      BY <1>1, <2>2
    <3>2. QED
      BY <1>1, <3>1
  <2>3. QED
    BY <2>1, <2>2
<1>3. QED
  BY <1>1, <1>2 DEF t

\* The chapter's section opens, around what was never emitted.
LEMMA AcceptSection ==
    ASSUME markup = "chm", NEW b, NEW elements \in Seq(Opened), \A i \in 1 .. Len(elements) : ~elements[i].out,
           NEW topics, NEW printed, Follows(b, Standing(FALSE, elements), topics, printed),
           NEW number \in Boundaries!Topics, number \notin topics
    PROVE  Follows(Boundaries!Accept(b, Boundaries!Open("section", number)), Standing(TRUE, elements),
                   topics \cup {number}, printed)
<1> DEFINE piece == Boundaries!Open("section", number)
           c == Boundaries!Accept(b, piece)
           s == Standing(FALSE, elements)
           t == Standing(TRUE, elements)
           pushed == Append(b.stack, "section")
<1>1. CASE b.why # "none"
  <2>1. topics \subseteq topics \cup {number}
    OBVIOUS
  <2>2. QED
    BY <1>1, <2>1, RefusedStays
<1>2. CASE b.why = "none"
  <2>1. b \in Parser /\ b.topics \subseteq topics /\ Within(b.stack, s) /\ (printed => b.printable)
    BY <1>2 DEF Follows
  <2>2. b.stack \in Seq(Element) /\ b.pictures \in Nat
    BY <2>1 DEF Parser
  <2>3. b.stack = <<>>
    BY <2>1, <2>2, AllHidden, NothingStands
  <2>4. piece.form = "open" /\ piece.tag = "section" /\ piece.to = number
    BY DEF Boundaries!Open
  <2>5. "section" \in Boundaries!Permitted /\ number \notin b.topics /\ "section" \in Element
    BY <2>1 DEF Boundaries!Permitted, Element
  <2> DEFINE why == IF b.pictures > MaxPictures THEN "pictures" ELSE IF Len(pushed) > Depth THEN "depth" ELSE "none"
  <2>6. c = [b EXCEPT !.stack = pushed, !.pictures = b.pictures + 0, !.topics = b.topics \cup {number},
                      !.links = b.links,
                      !.why = IF b.pictures + 0 > MaxPictures THEN "pictures"
                              ELSE IF Len(pushed) > Depth THEN "depth" ELSE @]
    BY <1>2, <2>4, <2>5 DEF Boundaries!Accept, Boundaries!AcceptOpen, Boundaries!Empty
  <2>7. b.pictures + 0 = b.pictures
    BY <2>2
  <2>8. c = [b EXCEPT !.stack = pushed, !.pictures = b.pictures, !.topics = b.topics \cup {number},
                      !.links = b.links, !.why = why]
    BY <1>2, <2>6, <2>7
  <2>9. pushed \in Seq(Element) /\ why \in {"none", "depth", "pictures"}
    BY <2>2, <2>5
  <2>10. Within(pushed, t)
    <3>1. Len(pushed) = 1 /\ pushed[1] = "section"
      BY <2>3
    <3>2. TRUE \in BOOLEAN /\ Len(elements) \in Nat
      OBVIOUS
    <3>3. /\ Len(t) = Len(elements) + 1 /\ t[1] = (IF TRUE THEN "section" ELSE "embed")
          /\ \A i \in 1 .. Len(elements) : t[i + 1] = Mark(elements[i])
      BY <3>2, StandingIs
    <3>4. \A i \in 1 .. Len(elements) : Mark(elements[i]) = "embed"
      BY DEF Mark
    <3> HIDE DEF t, pushed
    <3> DEFINE n == Len(elements)
               f == [i \in 1 .. 1 |-> 1]
    <3>5. Len(t) = n + 1 /\ t[1] = "section" /\ n \in Nat /\ \A i \in 1 .. n : t[i + 1] = "embed"
      BY <3>2, <3>3, <3>4
    <3> HIDE DEF n
    <3>6. f \in [1 .. 1 -> 1 .. n + 1] /\ f[1] = 1
      BY <3>5
    <3>7. \A k \in 1 .. n + 1 : t[k] # "embed" => k = 1
      <4> SUFFICES ASSUME NEW k \in 1 .. n + 1, k # 1 PROVE t[k] = "embed"
        OBVIOUS
      <4>1. k - 1 \in 1 .. n /\ k - 1 + 1 = k
        BY <3>5
      <4>2. QED
        BY <3>5, <4>1
    <3>8. \A i, k \in 1 .. 1 : ~(i < k) /\ i = 1
      OBVIOUS
    <3> HIDE DEF f
    <3>9. Places(f, pushed, t)
      BY <3>1, <3>5, <3>6, <3>7, <3>8 DEF Places
    <3>10. QED
      BY <3>9 DEF Within, Places
  <2> HIDE DEF c, why, pushed, t, s, piece
  <2>11. /\ c.stack = pushed /\ c.pictures = b.pictures /\ c.topics = b.topics \cup {number} /\ c.links = b.links
         /\ c.why = why /\ c.printable = b.printable /\ c \in Parser
    BY <2>1, <2>8, <2>9 DEF Parser
  <2>12. Follows(c, t, topics \cup {number}, printed)
    BY <2>1, <2>9, <2>10, <2>11 DEF Follows, Bearable
  <2>13. QED
    BY <2>12 DEF c, t, piece
<1>3. QED
  BY <1>1, <1>2

\* A chapter's section and its label.
LEMMA AcceptLabel ==
    ASSUME markup = "chm", chapter \in Boundaries!Topics,
           NEW b, NEW elements \in Seq(Opened), \A i \in 1 .. Len(elements) : ~elements[i].out,
           NEW printed, Follows(b, Standing(FALSE, elements), Sections(FALSE, chapter), printed)
    PROVE  /\ Boundaries!Label \in Seq(Piece)
           /\ Follows(Fold(b, Boundaries!Label), Standing(TRUE, elements), Sections(TRUE, chapter), TRUE)
<1> DEFINE label == Boundaries!Label
           t == Standing(TRUE, elements)
           all == Sections(TRUE, chapter)
<1>1. /\ label[1] = Boundaries!Open("section", chapter) /\ label[2] = Boundaries!Open("h2", 0)
      /\ label[3] = Boundaries!Text(Boundaries!Word) /\ label[4] = Boundaries!Close("h2") /\ Len(label) = 4
  BY DEF Boundaries!Label
<1>2. label \in Seq(Piece)
  <2>1. "section" \in Element /\ "h2" \in Element /\ chapter \in Nat /\ Boundaries!Word \in Nat
    BY DEF Element, Boundaries!Topics, Boundaries!Word
  <2>2. /\ Boundaries!Open("section", chapter) \in Piece /\ Boundaries!Open("h2", 0) \in Piece
        /\ Boundaries!Text(Boundaries!Word) \in Piece /\ Boundaries!Close("h2") \in Piece
    BY <2>1 DEF Boundaries!Open, Boundaries!Text, Boundaries!Close, Piece
  <2>3. QED
    BY <2>2 DEF Boundaries!Label
<1>3. t \in Seq(Element)
  BY StandingIs
<1> HIDE DEF label, t
<1>4. PICK r : Runs(r, b, label) /\ Fold(b, label) = r[4]
  BY <1>1, <1>2, FoldRuns
<1>5. /\ r[0] = b /\ r[1] = Boundaries!Accept(r[0], label[1]) /\ r[2] = Boundaries!Accept(r[1], label[2])
      /\ r[3] = Boundaries!Accept(r[2], label[3]) /\ r[4] = Boundaries!Accept(r[3], label[4])
  <2>1. /\ 1 \in 1 .. Len(label) /\ 2 \in 1 .. Len(label) /\ 3 \in 1 .. Len(label) /\ 4 \in 1 .. Len(label)
        /\ 1 - 1 = 0 /\ 2 - 1 = 1 /\ 3 - 1 = 2 /\ 4 - 1 = 3
    BY <1>1
  <2>2. /\ r[0] = b /\ r[1] = Boundaries!Accept(r[1 - 1], label[1]) /\ r[2] = Boundaries!Accept(r[2 - 1], label[2])
        /\ r[3] = Boundaries!Accept(r[3 - 1], label[3]) /\ r[4] = Boundaries!Accept(r[4 - 1], label[4])
    BY <1>4, <2>1 DEF Runs
  <2>3. QED
    BY <2>1, <2>2
<1>6. Follows(r[1], t, all, printed)
  <2>1. chapter \notin Sections(FALSE, chapter) /\ Sections(FALSE, chapter) \cup {chapter} = all
    BY DEF Sections, Boundaries!Topics
  <2> DEFINE before == Sections(FALSE, chapter)
  <2> HIDE DEF before
  <2>2. Follows(b, Standing(FALSE, elements), before, printed) /\ chapter \notin before
    BY <2>1 DEF before
  <2>3. Follows(Boundaries!Accept(b, Boundaries!Open("section", chapter)), Standing(TRUE, elements), before \cup {chapter}, printed)
    BY <2>2, AcceptSection
  <2>4. r[1] = Boundaries!Accept(b, Boundaries!Open("section", chapter))
    BY <1>1, <1>5
  <2>5. Follows(r[1], t, before \cup {chapter}, printed)
    BY <2>3, <2>4 DEF t
  <2>6. QED
    BY <2>1, <2>5 DEF before
<1> HIDE DEF all
<1>7. Follows(r[2], Append(t, "h2"), all, printed)
  BY <1>1, <1>3, <1>5, <1>6, AcceptPush DEF Shallow
<1>8. Follows(r[3], Append(t, "h2"), all, TRUE)
  BY <1>1, <1>5, <1>7, AcceptText
<1>9. Follows(r[4], t, all, TRUE)
  <2> DEFINE u == Append(t, "h2")
  <2>1. "h2" \in Element
    BY DEF Element
  <2>2. u \in Seq(Element) /\ u # <<>> /\ u[Len(u)] = "h2" /\ SubSeq(u, 1, Len(u) - 1) = t
    BY <1>3, <2>1
  <2>3. EndingOf("h2") = label[4]
    BY <1>1 DEF EndingOf
  <2> HIDE DEF u
  <2>4. Follows(r[3], u, all, TRUE)
    BY <1>8 DEF u
  <2>5. Follows(Boundaries!Accept(r[3], EndingOf(u[Len(u)])), SubSeq(u, 1, Len(u) - 1), all, TRUE)
    BY <2>2, <2>4, AcceptEnding
  <2>6. QED
    BY <1>5, <2>2, <2>3, <2>5
<1>10. QED
  BY <1>2, <1>4, <1>9 DEF label, t, all

-----------------------------------------------------------------------------
(* What the reader emits.                                                   *)
Chm == markup = "chm"

LEMMA ClosingIs ==
    ASSUME opened \in Seq(Opened), NEW inside \in BOOLEAN, NEW index \in 1 .. Len(opened) + 1
    PROVE  /\ Boundaries!Closing(index) \in Seq(Piece)
           /\ Len(Boundaries!Closing(index)) = Len(opened) + 1 - index
           /\ \A i \in 1 .. Len(opened) + 1 - index :
                 Boundaries!Closing(index)[i] = EndingOf(Standing(inside, opened)[Len(opened) + 2 - i])
<1> DEFINE n == Len(opened)
           t == Standing(inside, opened)
           pieces == Boundaries!Closing(index)
<1>1. n \in Nat /\ \A i \in 1 .. n : opened[i] \in Opened
  OBVIOUS
<1>2. pieces = [i \in 1 .. n + 1 - index |-> Boundaries!Ending(opened[n + 1 - i])]
  BY DEF Boundaries!Closing
<1>3. \A i \in 1 .. n : t[i + 1] = Mark(opened[i])
  BY StandingIs
<1> HIDE DEF n, t, pieces
<1>4. ASSUME NEW i \in 1 .. n
      PROVE  Boundaries!Ending(opened[i]) = EndingOf(Mark(opened[i])) /\ Boundaries!Ending(opened[i]) \in Piece
  <2>1. opened[i].tag \in Boundaries!Shown \cup {"a"} /\ opened[i].out \in BOOLEAN
    BY <1>1 DEF Opened
  <2>2. opened[i].tag # "embed" /\ opened[i].tag \in Element
    BY <2>1 DEF Boundaries!Shown, Element, Boundaries!Tag
  <2>3. QED
    BY <2>1, <2>2 DEF Boundaries!Ending, EndingOf, Mark, Piece, Boundaries!Close, Boundaries!Nothing
<1>5. ASSUME NEW i \in 1 .. n + 1 - index
      PROVE  n + 1 - i \in 1 .. n /\ n + 1 - i + 1 = n + 2 - i
  BY <1>1 DEF n
<1>6. n + 1 - index \in Nat
  BY <1>1 DEF n
<1>7. pieces \in [1 .. n + 1 - index -> Piece]
  BY <1>2, <1>4, <1>5
<1>8. pieces \in Seq(Piece) /\ Len(pieces) = n + 1 - index
  BY <1>6, <1>7
<1>9. \A i \in 1 .. n + 1 - index : pieces[i] = EndingOf(t[n + 2 - i])
  <2> SUFFICES ASSUME NEW i \in 1 .. n + 1 - index PROVE pieces[i] = EndingOf(t[n + 2 - i])
    OBVIOUS
  <2>1. pieces[i] = EndingOf(Mark(opened[n + 1 - i]))
    BY <1>2, <1>4, <1>5
  <2>2. t[n + 2 - i] = Mark(opened[n + 1 - i])
    BY <1>3, <1>5
  <2>3. QED
    BY <2>1, <2>2
<1>10. QED
  BY <1>8, <1>9 DEF n, t, pieces

\* A chapter of a CHM that has shown nothing yet sends nothing; everything else
\* is given to the parser, after the chapter's label if it is the first.
Sends(pieces, b0) ==
    /\ Follows(b0, Standing(Chm, opened), Sections(Chm, chapter), Chm \/ said)
    /\ boundary' = Fold(b0, pieces)

LEMMA EmitCases ==
    ASSUME AgreeInv, stage = "reading", markup # "html",
           NEW pieces \in Seq(Piece), Boundaries!Emit(pieces)
    PROVE  /\ said' \in BOOLEAN /\ wrapped' \in BOOLEAN
           /\ (said' => said \/ \E i \in DOMAIN pieces : Boundaries!Counts(pieces[i]))
           /\ \/ /\ Chm /\ ~wrapped /\ ~wrapped' /\ boundary' = boundary /\ (said' <=> said)
                 /\ \A i \in DOMAIN pieces : ~Boundaries!Counts(pieces[i])
              \/ /\ (wrapped' <=> Chm) /\ (Chm => said')
                 /\ \E b0 : Sends(pieces, b0)
<1> DEFINE first == \E i \in DOMAIN pieces : Boundaries!Counts(pieces[i])
<1>1. /\ said' = (said \/ first)
      /\ wrapped' = (Chm /\ (wrapped \/ first))
      /\ boundary' = IF Chm /\ ~wrapped' THEN boundary
                     ELSE IF Chm /\ ~wrapped THEN Boundaries!Parsed(Boundaries!Label \o pieces)
                     ELSE Boundaries!Parsed(pieces)
  BY DEF Boundaries!Emit, Chm
<1> HIDE DEF first
<1>2. ReadingTypes /\ ReadingInv
  BY DEF AgreeInv
<1>3. said' \in BOOLEAN /\ wrapped' \in BOOLEAN
  BY <1>1
<1>4. Boundaries!Parsed(pieces) = Fold(boundary, pieces)
      /\ Boundaries!Parsed(Boundaries!Label \o pieces) = Fold(boundary, Boundaries!Label \o pieces)
  BY DEF Boundaries!Parsed, Fold
<1>5. CASE ~Chm
  <2>1. ~wrapped /\ ~wrapped' /\ boundary' = Fold(boundary, pieces) /\ markup = "url"
    BY <1>1, <1>2, <1>4, <1>5 DEF ReadingInv, ReadingTypes, Chm
  <2>2. wrapped = Chm /\ (said <=> (Chm \/ said))
    BY <1>2, <1>5, <2>1 DEF ReadingTypes, Chm
  <2>3. Follows(boundary, Standing(Chm, opened), Sections(Chm, chapter), Chm \/ said)
    <3>1. Follows(boundary, Standing(wrapped, opened), Sections(wrapped, chapter), said)
      BY <1>2 DEF ReadingInv
    <3>2. said = (Chm \/ said)
      BY <1>2, <2>2 DEF ReadingTypes
    <3>3. QED
      BY <2>2, <3>1, <3>2
  <2>4. Sends(pieces, boundary)
    BY <2>1, <2>3 DEF Sends
  <2>5. QED
    BY <1>1, <1>3, <1>5, <2>1, <2>4 DEF first
<1>6. CASE Chm /\ ~wrapped /\ ~first
  <2>1. ~wrapped' /\ boundary' = boundary /\ (said' <=> said)
    BY <1>1, <1>2, <1>6 DEF ReadingTypes
  <2>2. QED
    BY <1>3, <1>6, <2>1 DEF first
<1>7. CASE Chm /\ ~wrapped /\ first
  <2>1. wrapped' /\ said' /\ boundary' = Fold(boundary, Boundaries!Label \o pieces)
    BY <1>1, <1>4, <1>7
  <2>2. opened \in Seq(Opened) /\ chapter \in Boundaries!Topics /\ \A i \in 1 .. Len(opened) : ~opened[i].out
    BY <1>2, <1>7 DEF ReadingTypes, ReadingInv, Chm
  <2>3. Follows(boundary, Standing(FALSE, opened), Sections(FALSE, chapter), said)
    <3>1. wrapped = FALSE
      BY <1>2, <1>7 DEF ReadingTypes
    <3>2. Follows(boundary, Standing(wrapped, opened), Sections(wrapped, chapter), said)
      BY <1>2 DEF ReadingInv
    <3>3. QED
      BY <3>1, <3>2
  <2> DEFINE b0 == Fold(boundary, Boundaries!Label)
  <2>4. Boundaries!Label \in Seq(Piece) /\ Follows(b0, Standing(TRUE, opened), Sections(TRUE, chapter), TRUE)
    BY <1>7, <2>2, <2>3, AcceptLabel DEF Chm
  <2>5. boundary' = Fold(b0, pieces)
    BY <2>1, <2>4, FoldConcat
  <2> HIDE DEF b0
  <2>6. Chm = TRUE /\ (Chm \/ said) = TRUE
    BY <1>7 DEF Chm
  <2>7. Sends(pieces, b0)
    BY <2>4, <2>5, <2>6 DEF Sends
  <2>8. QED
    BY <1>3, <1>7, <2>1, <2>7 DEF first
<1>8. CASE Chm /\ wrapped
  <2>1. wrapped' /\ said' /\ boundary' = Fold(boundary, pieces)
    BY <1>1, <1>2, <1>4, <1>8 DEF ReadingInv, Chm
  <2>2. Chm = TRUE /\ wrapped = TRUE /\ said = TRUE /\ (Chm \/ said) = TRUE
    BY <1>2, <1>8 DEF ReadingTypes, ReadingInv, Chm
  <2>3. Follows(boundary, Standing(Chm, opened), Sections(Chm, chapter), Chm \/ said)
    <3>1. Follows(boundary, Standing(wrapped, opened), Sections(wrapped, chapter), said)
      BY <1>2 DEF ReadingInv
    <3>2. QED
      BY <2>2, <3>1
  <2>4. Sends(pieces, boundary)
    BY <2>1, <2>3 DEF Sends
  <2>5. QED
    BY <1>3, <1>8, <2>1, <2>2, <2>4 DEF first
<1>9. QED
  BY <1>5, <1>6, <1>7, <1>8

\* A step of the HTML reader has no parser behind it.
LEMMA AgreeHtml ==
    ASSUME AgreeInv, markup = "html", UNCHANGED <<markup, chapter>>, boundary' = boundary, opened' = opened,
           said' \in BOOLEAN, wrapped' \in BOOLEAN, stage' \in {"reading", "refused", "done"}
    PROVE  AgreeInv'
<1>1. boundary' = Boundaries!Fresh /\ opened' = <<>> /\ boundary'.why = "none"
  BY DEF AgreeInv, Boundaries!Fresh
<1>2. ReadingTypes'
  BY <1>1 DEF AgreeInv, ReadingTypes
<1>3. QED
  BY <1>1, <1>2 DEF AgreeInv, Boundaries!BoundaryAgrees, Boundaries!Fresh

\* A step of another reader, after which the parser follows it.
LEMMA AgreeFollows ==
    ASSUME AgreeInv, markup # "html", UNCHANGED markup, chapter' \in Boundaries!Topics, stage' = "reading",
           said' \in BOOLEAN, wrapped' \in BOOLEAN, opened' \in Seq(Opened),
           Follows(boundary', Standing(wrapped', opened'), Sections(wrapped', chapter'), said'),
           markup = "url" =>
             ~wrapped' /\ Len(opened') <= Depth /\ \A i \in 1 .. Len(opened') : opened'[i].tag \in Boundaries!Shown,
           Chm => IF wrapped' THEN said' ELSE \A i \in 1 .. Len(opened') : ~opened'[i].out
    PROVE  AgreeInv'
<1>1. ReadingTypes'
  BY DEF AgreeInv, ReadingTypes
<1>2. Follows(boundary, Standing(wrapped, opened), Sections(wrapped, chapter), said)'
  BY DEF Follows, Within, Places, Standing, Sections, Bearable, Parser
<1>3. ReadingInv'
  BY <1>2 DEF ReadingInv, Chm, Boundaries!Shown
<1>4. QED
  BY <1>1, <1>3 DEF AgreeInv, Boundaries!BoundaryAgrees

\* A step that leaves what the argument reads.
LEMMA AgreeKeep ==
    ASSUME AgreeInv, stage = "reading", UNCHANGED <<markup, chapter, said, wrapped, boundary, opened>>,
           stage' \in {"reading", "refused"}
    PROVE  AgreeInv'
<1>1. CASE markup = "html"
  BY <1>1, AgreeHtml DEF AgreeInv, ReadingTypes
<1>2. CASE markup # "html" /\ stage' = "refused"
  <2>1. ReadingTypes'
    BY <1>2 DEF AgreeInv, ReadingTypes
  <2>2. QED
    BY <1>2, <2>1 DEF AgreeInv, Boundaries!BoundaryAgrees
<1>3. CASE markup # "html" /\ stage' = "reading"
  <2>1. ReadingTypes /\ ReadingInv
    BY <1>3 DEF AgreeInv
  <2>2. Follows(boundary', Standing(wrapped', opened'), Sections(wrapped', chapter'), said')
    BY <2>1 DEF ReadingInv
  <2>3. QED
    BY <1>3, <2>1, <2>2, AgreeFollows DEF ReadingTypes, ReadingInv, Chm
<1>4. QED
  BY <1>1, <1>2, <1>3

-----------------------------------------------------------------------------
(* Each step of a reader.                                                   *)

\* A chapter that sends nothing: whatever it opens was not emitted.
LEMMA AgreeSilent ==
    ASSUME AgreeInv, stage = "reading", Chm, UNCHANGED <<markup, chapter, stage, boundary>>, ~wrapped, ~wrapped',
           said' \in BOOLEAN, said' <=> said, wrapped' \in BOOLEAN, opened' \in Seq(Opened),
           \A i \in 1 .. Len(opened') : ~opened'[i].out
    PROVE  AgreeInv'
<1>1. ReadingTypes /\ ReadingInv
  BY DEF AgreeInv, Chm
<1>2. wrapped = FALSE /\ wrapped' = FALSE /\ said' = said
  BY <1>1 DEF ReadingTypes
<1>3. Follows(boundary, Standing(FALSE, opened), Sections(FALSE, chapter), said)
  <2>1. Follows(boundary, Standing(wrapped, opened), Sections(wrapped, chapter), said)
    BY <1>1 DEF ReadingInv
  <2>2. QED
    BY <1>2, <2>1
<1>4. boundary.why = "none" => Within(boundary.stack, Standing(FALSE, opened'))
  <2> SUFFICES ASSUME boundary.why = "none" PROVE Within(boundary.stack, Standing(FALSE, opened'))
    OBVIOUS
  <2>1. boundary.stack \in Seq(Element) /\ Within(boundary.stack, Standing(FALSE, opened))
    BY <1>3 DEF Follows, Parser
  <2>2. opened \in Seq(Opened) /\ \A i \in 1 .. Len(opened) : ~opened[i].out
    BY <1>1, <1>2 DEF ReadingTypes, ReadingInv, Chm
  <2>3. \A i \in 1 .. Len(Standing(FALSE, opened)) : Standing(FALSE, opened)[i] = "embed"
    BY <2>2, AllHidden
  <2>4. boundary.stack = <<>>
    BY <2>1, <2>3, NothingStands
  <2>5. \A i \in 1 .. Len(Standing(FALSE, opened')) : Standing(FALSE, opened')[i] = "embed"
    BY AllHidden
  <2>6. QED
    BY <2>4, <2>5, NothingWithin
<1>5. Follows(boundary, Standing(FALSE, opened'), Sections(FALSE, chapter), said)
  BY <1>3, <1>4 DEF Follows
<1>6. Follows(boundary', Standing(wrapped', opened'), Sections(wrapped', chapter'), said')
  BY <1>2, <1>5
<1>7. QED
  BY <1>1, <1>2, <1>6, AgreeFollows DEF ReadingTypes, Chm

\* The reader emits, and the parser follows.
LEMMA AgreeSends ==
    ASSUME AgreeInv, stage = "reading", markup # "html", UNCHANGED <<markup, chapter, stage>>,
           said' \in BOOLEAN, wrapped' \in BOOLEAN, wrapped' <=> Chm, Chm => said', opened' \in Seq(Opened),
           Follows(boundary', Standing(Chm, opened'), Sections(Chm, chapter), said'),
           markup = "url" => Len(opened') <= Depth /\ \A i \in 1 .. Len(opened') : opened'[i].tag \in Boundaries!Shown
    PROVE  AgreeInv'
<1>1. ReadingTypes
  BY DEF AgreeInv
<1>2. wrapped' = Chm
  BY DEF Chm
<1>3. Follows(boundary', Standing(wrapped', opened'), Sections(wrapped', chapter'), said')
  BY <1>2
<1>4. markup = "url" => ~wrapped'
  BY <1>2 DEF Chm
<1>5. Chm => IF wrapped' THEN said' ELSE \A i \in 1 .. Len(opened') : ~opened'[i].out
  BY <1>2
<1>6. QED
  BY <1>1, <1>3, <1>4, <1>5, AgreeFollows DEF ReadingTypes

\* What the parser has seen before a piece, of the reader's types.
LEMMA SendTypes ==
    ASSUME AgreeInv, stage = "reading", markup # "html"
    PROVE  /\ markup \in {"url", "chm"} /\ chapter \in Boundaries!Topics /\ said \in BOOLEAN /\ Chm \in BOOLEAN
           /\ opened \in Seq(Opened) /\ Len(opened) \in Nat
           /\ Standing(Chm, opened) \in Seq(Element) /\ Len(Standing(Chm, opened)) = Len(opened) + 1
           /\ (markup = "url" => /\ ~Chm /\ Len(opened) <= Depth
                                 /\ \A i \in 1 .. Len(opened) : opened[i].tag \in Boundaries!Shown)
           /\ Shallow(Standing(Chm, opened), Depth + 1)
           /\ (~(Len(opened) >= Depth) => Shallow(Standing(Chm, opened), Depth))
<1>1. /\ markup \in {"url", "chm"} /\ chapter \in Boundaries!Topics /\ said \in BOOLEAN /\ Chm \in BOOLEAN
      /\ opened \in Seq(Opened) /\ Len(opened) \in Nat
      /\ (markup = "url" => /\ ~Chm /\ Len(opened) <= Depth
                            /\ \A i \in 1 .. Len(opened) : opened[i].tag \in Boundaries!Shown)
  BY DEF AgreeInv, ReadingTypes, ReadingInv, Chm
<1> DEFINE t == Standing(Chm, opened)
<1>2. t \in Seq(Element) /\ Len(t) = Len(opened) + 1 /\ t[1] = IF Chm THEN "section" ELSE "embed"
  BY <1>1, StandingIs
<1> HIDE DEF t
<1>3. t # <<>>
  BY <1>1, <1>2
<1>4. markup = "url" => t[1] = "embed"
  BY <1>1, <1>2
<1>5. Shallow(t, Depth + 1) /\ (~(Len(opened) >= Depth) => Shallow(t, Depth))
  <2> DEFINE n == Len(opened)
  <2>1. n \in Nat /\ Depth \in Nat /\ Len(t) = n + 1 /\ (markup = "url" => n <= Depth)
    BY <1>1, <1>2, ReaderAssumption
  <2> HIDE DEF n
  <2>2. (markup = "url" => n + 1 <= Depth + 1) /\ (~(n >= Depth) => n + 1 <= Depth)
    BY <2>1
  <2>3. Shallow(t, Depth + 1) /\ (~(n >= Depth) => Shallow(t, Depth))
    BY <1>3, <1>4, <2>1, <2>2 DEF Shallow
  <2>4. QED
    BY <2>3 DEF n
<1>6. QED
  BY <1>1, <1>2, <1>5 DEF t

LEMMA PieceForms ==
    ASSUME NEW tag \in Element, NEW to \in Nat
    PROVE  /\ Boundaries!Open(tag, to) \in Piece /\ Boundaries!Close(tag) \in Piece /\ Boundaries!Text(to) \in Piece
           /\ Boundaries!Open(tag, to) # Boundaries!Text(Boundaries!Word)
           /\ Boundaries!Close(tag) # Boundaries!Text(Boundaries!Word)
           /\ Boundaries!Open(tag, to) \notin {Boundaries!Text(Boundaries!Spaces), Boundaries!Nothing}
           /\ (Boundaries!Text(to) = Boundaries!Text(Boundaries!Word) => to = Boundaries!Word)
<1>1. /\ Boundaries!Open(tag, to).form = "open" /\ Boundaries!Close(tag).form = "close"
      /\ Boundaries!Text(to).form = "text" /\ Boundaries!Text(Boundaries!Word).form = "text"
      /\ Boundaries!Text(Boundaries!Spaces).form = "text" /\ Boundaries!Nothing.form = "nothing"
      /\ Boundaries!Text(to).to = to /\ Boundaries!Text(Boundaries!Word).to = Boundaries!Word
  BY DEF Boundaries!Open, Boundaries!Close, Boundaries!Text, Boundaries!Nothing
<1>2. /\ Boundaries!Open(tag, to) \in Piece /\ Boundaries!Close(tag) \in Piece /\ Boundaries!Text(to) \in Piece
  BY DEF Boundaries!Open, Boundaries!Close, Boundaries!Text, Piece
<1>3. QED
  BY <1>1, <1>2

\* The start tag of an element that is shown.
LEMMA ShowAgrees ==
    ASSUME AgreeInv, stage = "reading", NEW tag \in Boundaries!Tag, NEW slash \in BOOLEAN, Boundaries!Show(tag, slash)
    PROVE  AgreeInv'
<1> DEFINE pieces == IF slash /\ tag \in Boundaries!Shown
                     THEN <<Boundaries!Open(tag, 0), Boundaries!Close(tag)>> ELSE <<Boundaries!Open(tag, 0)>>
           e == [tag |-> tag, out |-> TRUE]
           t == Standing(Chm, opened)
           all == Sections(Chm, chapter)
           kept == slash \/ tag \in Boundaries!Empty
<1>1. CASE Boundaries!Refuse
  BY <1>1, AgreeKeep DEF Boundaries!Refuse
<1>2. CASE ~Boundaries!Refuse
  <2>1. /\ ~(Boundaries!Full /\ (markup = "chm" \/ tag \in Boundaries!Shown))
        /\ tag \in Boundaries!Shown \cup Boundaries!Empty
        /\ Boundaries!Emit(pieces) /\ UNCHANGED <<markup, chapter, stage>>
        /\ opened' = IF kept \/ markup = "html" THEN opened ELSE Append(opened, e)
    BY <1>2 DEF Boundaries!Show, Boundaries!Go, Boundaries!Push
  <2>2. CASE markup = "html"
    <3>1. boundary' = boundary /\ said' \in BOOLEAN /\ wrapped' \in BOOLEAN
      BY <2>1, <2>2 DEF Boundaries!Emit, Boundaries!Parsed, AgreeInv, ReadingTypes
    <3>2. QED
      BY <2>1, <2>2, <3>1, AgreeHtml
  <2>3. CASE markup # "html"
    <3>1. /\ markup \in {"url", "chm"} /\ chapter \in Boundaries!Topics /\ said \in BOOLEAN /\ Chm \in BOOLEAN
          /\ opened \in Seq(Opened) /\ Len(opened) \in Nat /\ t \in Seq(Element)
          /\ (markup = "url" => ~Chm /\ Len(opened) <= Depth /\ \A i \in 1 .. Len(opened) : opened[i].tag \in Boundaries!Shown)
          /\ Shallow(t, Depth + 1) /\ (~(Len(opened) >= Depth) => Shallow(t, Depth))
      BY <2>3, SendTypes
    <3>2. tag \in Element /\ tag \in Boundaries!Tag /\ 0 \in Nat
      BY DEF Element
    <3>3. /\ Boundaries!Open(tag, 0) \in Piece /\ Boundaries!Close(tag) \in Piece
          /\ Boundaries!Open(tag, 0) # Boundaries!Text(Boundaries!Word)
          /\ Boundaries!Close(tag) # Boundaries!Text(Boundaries!Word)
          /\ Boundaries!Open(tag, 0) \notin {Boundaries!Text(Boundaries!Spaces), Boundaries!Nothing}
      BY <3>2, PieceForms
    <3> DEFINE p == Boundaries!Open(tag, 0)
               q == Boundaries!Close(tag)
    <3>4. /\ pieces = (IF slash /\ tag \in Boundaries!Shown THEN <<p, q>> ELSE <<p>>)
          /\ p \in Piece /\ q \in Piece /\ p # Boundaries!Text(Boundaries!Word) /\ q # Boundaries!Text(Boundaries!Word)
          /\ p \notin {Boundaries!Text(Boundaries!Spaces), Boundaries!Nothing}
      BY <3>3
    <3> HIDE DEF p, q, pieces, kept, t, all
    <3>5. pieces \in Seq(Piece) /\ (\A i \in DOMAIN pieces : pieces[i] \in {p, q}) /\ 1 \in DOMAIN pieces /\ pieces[1] = p
      BY <3>4
    <3>6. /\ said' \in BOOLEAN /\ wrapped' \in BOOLEAN /\ (wrapped' <=> Chm) /\ (Chm => said')
          /\ (said' => Chm \/ said)
          /\ \E b0 : Sends(pieces, b0)
      <4>1. Chm => Boundaries!Counts(pieces[1])
        BY <3>4, <3>5 DEF Boundaries!Counts, Chm
      <4>2. markup = "url" => \A i \in DOMAIN pieces : ~Boundaries!Counts(pieces[i])
        BY <3>4, <3>5 DEF Boundaries!Counts
      <4>3. /\ said' \in BOOLEAN /\ wrapped' \in BOOLEAN
            /\ (said' => said \/ \E i \in DOMAIN pieces : Boundaries!Counts(pieces[i]))
            /\ \/ Chm /\ \A i \in DOMAIN pieces : ~Boundaries!Counts(pieces[i])
               \/ (wrapped' <=> Chm) /\ (Chm => said') /\ \E b0 : Sends(pieces, b0)
        BY <2>1, <2>3, <3>5, EmitCases
      <4>4. QED
        BY <3>1, <3>5, <4>1, <4>2, <4>3 DEF Chm
    <3>7. PICK b0 : Sends(pieces, b0)
      BY <3>6
    <3>8. Follows(b0, t, all, Chm \/ said) /\ boundary' = Fold(b0, pieces)
      BY <3>7 DEF Sends, t, all
    <3> DEFINE u == Standing(Chm, opened')
    <3>9. opened' \in Seq(Opened) /\ u = (IF kept THEN t ELSE Append(t, tag))
      <4>1. CASE kept
        BY <2>1, <3>1, <4>1 DEF t
      <4>2. CASE ~kept
        <5>1. e \in Opened /\ Mark(e) = tag
          BY <2>1, <4>2 DEF Opened, Mark, kept
        <5>2. opened' = Append(opened, e)
          BY <2>1, <2>3, <4>2
        <5> HIDE DEF e
        <5>3. QED
          BY <3>1, <4>2, <5>1, <5>2, StandingPush DEF t
      <4>3. QED
        BY <4>1, <4>2
    <3>10. tag \in Boundaries!Shown => Shallow(t, Depth)
      BY <2>1, <3>1 DEF Boundaries!Full, Shallow
    <3>11. Follows(Fold(b0, pieces), u, all, Chm \/ said)
      <4>1. CASE tag \in Boundaries!Shown
        <5>1. Follows(Boundaries!Accept(b0, p), Append(t, tag), all, Chm \/ said)
          <6>1. tag \in Boundaries!Shown \cup {"a", "h2"} /\ tag \notin {"a", "h2"} /\ 0 \in Boundaries!Topics \cup {0}
            BY <4>1 DEF Boundaries!Shown
          <6>2. QED
            BY <3>1, <3>8, <3>10, <4>1, <6>1, AcceptPush DEF p
        <5>2. CASE slash
          <6>1. pieces = <<p, q>> /\ u = t
            BY <3>4, <3>9, <4>1, <5>2 DEF kept
          <6> DEFINE v == Append(t, tag)
          <6>2. v \in Seq(Element) /\ v # <<>> /\ v[Len(v)] = tag /\ SubSeq(v, 1, Len(v) - 1) = t
            BY <3>1, <3>2
          <6>3. EndingOf(tag) = q
            BY <4>1 DEF EndingOf, q, Boundaries!Shown
          <6> HIDE DEF v, u
          <6>4. Follows(Boundaries!Accept(b0, p), v, all, Chm \/ said)
            BY <5>1 DEF v
          <6>5. Follows(Boundaries!Accept(Boundaries!Accept(b0, p), EndingOf(v[Len(v)])), SubSeq(v, 1, Len(v) - 1), all, Chm \/ said)
            BY <6>2, <6>4, AcceptEnding
          <6>6. Follows(Boundaries!Accept(Boundaries!Accept(b0, p), q), t, all, Chm \/ said)
            BY <6>2, <6>3, <6>5
          <6>7. QED
            BY <6>1, <6>6, FoldTwo
        <5>3. CASE ~slash
          <6>1. pieces = <<p>> /\ u = Append(t, tag)
            BY <3>4, <3>9, <4>1, <5>3 DEF kept, Boundaries!Shown, Boundaries!Empty
          <6>2. QED
            BY <5>1, <6>1, FoldOne
        <5>4. QED
          BY <5>2, <5>3
      <4>2. CASE tag \in Boundaries!Empty
        <5>1. pieces = <<p>> /\ u = t
          BY <3>4, <3>9, <4>2 DEF kept, Boundaries!Shown, Boundaries!Empty
        <5>2. tag \in Boundaries!Empty \cup {"img"} /\ tag # "img"
          BY <4>2 DEF Boundaries!Empty
        <5>3. Follows(Boundaries!Accept(b0, p), t, all, Chm \/ said)
          BY <3>1, <3>8, <5>2, AcceptEmpty DEF p
        <5>4. QED
          BY <5>1, <5>3, FoldOne
      <4>3. QED
        BY <2>1, <4>1, <4>2
    <3>12. Follows(boundary', u, all, said')
      BY <3>6, <3>8, <3>11 DEF Follows
    <3>13. markup = "url" => Len(opened') <= Depth /\ \A i \in 1 .. Len(opened') : opened'[i].tag \in Boundaries!Shown
      <4>1. CASE kept
        BY <2>1, <3>1, <4>1
      <4>2. CASE ~kept /\ markup = "url"
        <5>1. opened' = Append(opened, e) /\ e.tag \in Boundaries!Shown /\ ~(Len(opened) >= Depth)
          BY <2>1, <4>2 DEF kept, Boundaries!Full
        <5> HIDE DEF e
        <5> DEFINE n == Len(opened)
        <5>2. /\ Len(opened') = n + 1 /\ opened'[n + 1] = e /\ n \in Nat /\ \A i \in 1 .. n : opened'[i] = opened[i]
          BY <3>1, <5>1
        <5>3. ~(n >= Depth) /\ \A i \in 1 .. n : opened[i].tag \in Boundaries!Shown
          BY <3>1, <4>2, <5>1
        <5> HIDE DEF n
        <5>4. Len(opened') <= Depth
          BY <5>2, <5>3, ReaderAssumption
        <5>5. \A i \in 1 .. n + 1 : opened'[i].tag \in Boundaries!Shown
          <6> SUFFICES ASSUME NEW i \in 1 .. n + 1 PROVE opened'[i].tag \in Boundaries!Shown
            OBVIOUS
          <6>1. i = n + 1 \/ i \in 1 .. n
            BY <5>2
          <6>2. QED
            BY <5>1, <5>2, <5>3, <6>1
        <5>6. QED
          BY <5>2, <5>4, <5>5
      <4>3. QED
        BY <4>1, <4>2
    <3>14. QED
      BY <2>1, <2>3, <3>6, <3>9, <3>12, <3>13, AgreeSends DEF all
  <2>4. QED
    BY <2>2, <2>3
<1>3. QED
  BY <1>1, <1>2

\* A link, emitted or only kept.
LEMMA LinkAgrees ==
    ASSUME AgreeInv, stage = "reading", NEW known_ \in BOOLEAN, NEW to \in Boundaries!Topics, Boundaries!Link(known_, to)
    PROVE  AgreeInv'
<1> DEFINE p == Boundaries!Open("a", to)
           e == [tag |-> "a", out |-> known_]
           t == Standing(Chm, opened)
           all == Sections(Chm, chapter)
<1>1. CASE Boundaries!Refuse
  BY <1>1, AgreeKeep DEF Boundaries!Refuse
<1>2. CASE ~Boundaries!Refuse
  <2>1. /\ markup = "chm" /\ UNCHANGED <<markup, chapter, stage>> /\ opened' = Append(opened, e)
        /\ IF known_ THEN Boundaries!Emit(<<p>>) ELSE UNCHANGED <<said, wrapped, boundary>>
    BY <1>2 DEF Boundaries!Link, Boundaries!Go, Boundaries!Push, Boundaries!EmitNothing
  <2>2. /\ chapter \in Boundaries!Topics /\ said \in BOOLEAN /\ opened \in Seq(Opened) /\ t \in Seq(Element)
        /\ Shallow(t, Depth + 1) /\ Chm = TRUE /\ Shallow(t, Depth)
    BY <2>1, SendTypes DEF Chm, Shallow
  <2>3. e \in Opened /\ Mark(e) = IF known_ THEN "a" ELSE "embed"
    BY DEF Opened, Mark
  <2>4. opened' \in Seq(Opened)
    BY <2>1, <2>2, <2>3
  <2>5. CASE known_
    <3>1. "a" \in Element /\ to \in Nat
      BY DEF Element, Boundaries!Topics
    <3>2. p \in Piece /\ p \notin {Boundaries!Text(Boundaries!Spaces), Boundaries!Nothing}
      BY <3>1, PieceForms
    <3> DEFINE pieces == <<p>>
    <3>3. pieces \in Seq(Piece) /\ 1 \in DOMAIN pieces /\ pieces[1] = p
      BY <3>2
    <3> HIDE DEF pieces
    <3>4. Boundaries!Emit(pieces)
      BY <2>1, <2>5 DEF pieces
    <3>5. Boundaries!Counts(pieces[1])
      BY <2>1, <3>2, <3>3 DEF Boundaries!Counts
    <3>6. /\ said' \in BOOLEAN /\ wrapped' \in BOOLEAN /\ (wrapped' <=> Chm) /\ (Chm => said')
          /\ \E b0 : Sends(pieces, b0)
      <4>1. markup # "html"
        BY <2>1
      <4>2. /\ said' \in BOOLEAN /\ wrapped' \in BOOLEAN
            /\ \/ \A i \in DOMAIN pieces : ~Boundaries!Counts(pieces[i])
               \/ (wrapped' <=> Chm) /\ (Chm => said') /\ \E b0 : Sends(pieces, b0)
        BY <3>3, <3>4, <4>1, EmitCases
      <4>3. QED
        BY <3>3, <3>5, <4>2
    <3>7. PICK b0 : Sends(pieces, b0)
      BY <3>6
    <3>8. Follows(b0, t, all, Chm \/ said) /\ boundary' = Fold(b0, pieces)
      BY <3>7 DEF Sends
    <3> HIDE DEF p, t, all, e
    <3>9. Follows(Boundaries!Accept(b0, p), Append(t, "a"), all, Chm \/ said)
      <4>1. /\ "a" \in Boundaries!Shown \cup {"a", "h2"} /\ to \in Boundaries!Topics \cup {0}
            /\ markup \in {"url", "chm"}
        BY <2>1
      <4>2. QED
        BY <2>1, <2>2, <3>8, <4>1, AcceptPush DEF p
    <3>10. boundary' = Boundaries!Accept(b0, p)
      BY <3>8, FoldOne DEF pieces
    <3>11. Standing(Chm, opened') = Append(t, "a")
      BY <2>1, <2>2, <2>3, <2>5, StandingPush DEF t
    <3>12. Follows(boundary', Standing(Chm, opened'), all, said')
      BY <2>2, <3>6, <3>9, <3>10, <3>11 DEF Follows
    <3>13. QED
      BY <2>1, <2>4, <3>6, <3>12, AgreeSends DEF all
  <2>6. CASE ~known_
    <3>1. ReadingTypes /\ ReadingInv /\ UNCHANGED <<said, wrapped, boundary>>
      BY <2>1, <2>6 DEF AgreeInv
    <3>2. Follows(boundary, Standing(wrapped, opened), Sections(wrapped, chapter), said) /\ wrapped \in BOOLEAN
      BY <3>1 DEF ReadingInv, ReadingTypes
    <3> DEFINE o == Standing(wrapped, opened)
    <3>3. o \in Seq(Element) /\ Standing(wrapped, opened') = Append(o, "embed")
      BY <2>1, <2>2, <2>3, <2>6, <3>2, StandingIs, StandingPush
    <3> HIDE DEF o
    <3>4. boundary.why = "none" => Within(boundary.stack, Append(o, "embed"))
      <4> SUFFICES ASSUME boundary.why = "none" PROVE Within(boundary.stack, Append(o, "embed"))
        OBVIOUS
      <4>1. boundary.stack \in Seq(Element) /\ Within(boundary.stack, o)
        BY <3>2 DEF Follows, Parser, o
      <4>2. PICK f : Places(f, boundary.stack, o)
        BY <4>1 DEF Within
      <4>3. Places(f, boundary.stack, Append(o, "embed"))
        BY <3>3, <4>1, <4>2, PlacesEmbed
      <4>4. QED
        BY <4>3 DEF Within, Places
    <3>5. Follows(boundary, Standing(wrapped, opened'), Sections(wrapped, chapter), said)
      BY <3>2, <3>3, <3>4 DEF Follows
    <3>6. Follows(boundary', Standing(wrapped', opened'), Sections(wrapped', chapter'), said')
      BY <2>1, <3>1, <3>5
    <3>7. ~wrapped => \A i \in 1 .. Len(opened') : ~opened'[i].out
      <4> SUFFICES ASSUME ~wrapped, NEW i \in 1 .. Len(opened') PROVE ~opened'[i].out
        OBVIOUS
      <4>1. \A k \in 1 .. Len(opened) : ~opened[k].out
        BY <2>1, <3>1 DEF ReadingInv
      <4>2. ~e.out
        BY <2>6
      <4> HIDE DEF e
      <4>3. i \in 1 .. Len(opened) \/ opened'[i] = e
        BY <2>1, <2>2, <2>3
      <4>4. i \in 1 .. Len(opened) => opened'[i] = opened[i]
        BY <2>1, <2>2, <2>3
      <4>5. QED
        BY <4>1, <4>2, <4>3, <4>4
    <3>8. wrapped => said
      BY <2>1, <3>1 DEF ReadingInv
    <3>9. markup # "url" /\ markup # "html" /\ chapter' \in Boundaries!Topics /\ stage' = "reading"
      BY <2>1, <2>2
    <3>10. Chm => IF wrapped' THEN said' ELSE \A i \in 1 .. Len(opened') : ~opened'[i].out
      BY <3>1, <3>7, <3>8
    <3>11. said' \in BOOLEAN /\ wrapped' \in BOOLEAN /\ markup' = markup
      BY <2>1, <3>1 DEF ReadingTypes
    <3>12. QED
      BY <2>4, <3>6, <3>9, <3>10, <3>11, AgreeFollows
  <2>7. QED
    BY <2>5, <2>6
<1>3. QED
  BY <1>1, <1>2

LEMMA DrawAgrees ==
    ASSUME AgreeInv, stage = "reading", NEW image, Boundaries!DrawImage(image)
    PROVE  AgreeInv'
<1> DEFINE p == Boundaries!Open("img", 0)
           t == Standing(Chm, opened)
           all == Sections(Chm, chapter)
           pieces == <<p>>
<1>1. CASE Boundaries!Refuse
  BY <1>1, AgreeKeep DEF Boundaries!Refuse
<1>2. CASE ~Boundaries!Refuse
  <2>1. markup = "chm" /\ UNCHANGED <<markup, chapter, stage, opened>> /\ Boundaries!Emit(pieces)
    BY <1>2 DEF Boundaries!DrawImage
  <2>2. /\ said \in BOOLEAN /\ opened \in Seq(Opened) /\ t \in Seq(Element) /\ Shallow(t, Depth + 1) /\ Chm = TRUE
    BY <2>1, SendTypes DEF Chm
  <2>3. "img" \in Element /\ 0 \in Nat
    BY DEF Element
  <2>4. p \in Piece /\ p \notin {Boundaries!Text(Boundaries!Spaces), Boundaries!Nothing}
    BY <2>3, PieceForms
  <2>5. pieces \in Seq(Piece) /\ 1 \in DOMAIN pieces /\ pieces[1] = p
    BY <2>4
  <2> HIDE DEF pieces
  <2>6. Boundaries!Counts(pieces[1])
    BY <2>1, <2>4, <2>5 DEF Boundaries!Counts
  <2>7. /\ said' \in BOOLEAN /\ wrapped' \in BOOLEAN /\ (wrapped' <=> Chm) /\ (Chm => said')
        /\ \E b0 : Sends(pieces, b0)
    <3>1. markup # "html"
      BY <2>1
    <3>2. /\ said' \in BOOLEAN /\ wrapped' \in BOOLEAN
          /\ \/ \A i \in DOMAIN pieces : ~Boundaries!Counts(pieces[i])
             \/ (wrapped' <=> Chm) /\ (Chm => said') /\ \E b0 : Sends(pieces, b0)
      BY <2>1, <2>5, <3>1, EmitCases
    <3>3. QED
      BY <2>5, <2>6, <3>2
  <2>8. PICK b0 : Sends(pieces, b0)
    BY <2>7
  <2>9. Follows(b0, t, all, Chm \/ said) /\ boundary' = Fold(b0, pieces)
    BY <2>8 DEF Sends
  <2> HIDE DEF p, t, all
  <2>10. Follows(Boundaries!Accept(b0, p), t, all, Chm \/ said)
    <3>1. "img" \in Boundaries!Empty \cup {"img"} /\ markup \in {"url", "chm"}
      BY <2>1
    <3>2. QED
      BY <2>1, <2>2, <2>9, <3>1, AcceptEmpty DEF p
  <2>11. boundary' = Boundaries!Accept(b0, p)
    BY <2>9, FoldOne DEF pieces
  <2>12. Follows(boundary', Standing(Chm, opened'), all, said')
    BY <2>1, <2>2, <2>7, <2>10, <2>11 DEF Follows, t
  <2>13. QED
    BY <2>1, <2>2, <2>7, <2>12, AgreeSends DEF all
<1>3. QED
  BY <1>1, <1>2

LEMMA DataAgrees ==
    ASSUME AgreeInv, stage = "reading", NEW to \in {Boundaries!Spaces, Boundaries!Word}, Boundaries!Data(to)
    PROVE  AgreeInv'
<1> DEFINE p == Boundaries!Text(to)
           t == Standing(Chm, opened)
           all == Sections(Chm, chapter)
           pieces == <<p>>
<1>1. /\ UNCHANGED <<markup, chapter, stage, opened>>
      /\ Boundaries!Emit(pieces) \/ UNCHANGED <<said, wrapped, boundary>>
  BY DEF Boundaries!Data, Boundaries!Go, Boundaries!EmitNothing
<1>2. CASE UNCHANGED <<said, wrapped, boundary>>
  BY <1>1, <1>2, AgreeKeep
<1>3. CASE Boundaries!Emit(pieces) /\ markup = "html"
  <2>1. boundary' = boundary /\ said' \in BOOLEAN /\ wrapped' \in BOOLEAN
    BY <1>3 DEF Boundaries!Emit, Boundaries!Parsed, AgreeInv, ReadingTypes
  <2>2. QED
    BY <1>1, <1>3, <2>1, AgreeHtml
<1>4. CASE Boundaries!Emit(pieces) /\ markup # "html"
  <2>1. /\ said \in BOOLEAN /\ opened \in Seq(Opened) /\ Chm \in BOOLEAN
        /\ (markup = "url" => Len(opened) <= Depth /\ \A i \in 1 .. Len(opened) : opened[i].tag \in Boundaries!Shown)
    BY <1>4, SendTypes
  <2>2. p \in Piece /\ (p = Boundaries!Text(Boundaries!Word) => to = Boundaries!Word)
    <3>1. to \in Nat /\ "p" \in Element
      BY DEF Boundaries!Spaces, Boundaries!Word, Element, Boundaries!Tag, Boundaries!Shown
    <3>2. QED
      BY <3>1, PieceForms
  <2>3. pieces \in Seq(Piece) /\ \A i \in DOMAIN pieces : pieces[i] = p
    BY <2>2
  <2> HIDE DEF pieces
  <2>4. /\ said' \in BOOLEAN /\ wrapped' \in BOOLEAN
        /\ (said' => said \/ \E i \in DOMAIN pieces : Boundaries!Counts(pieces[i]))
        /\ \/ /\ Chm /\ ~wrapped /\ ~wrapped' /\ boundary' = boundary /\ (said' <=> said)
              /\ \A i \in DOMAIN pieces : ~Boundaries!Counts(pieces[i])
           \/ /\ (wrapped' <=> Chm) /\ (Chm => said')
              /\ \E b0 : Sends(pieces, b0)
    BY <1>4, <2>3, EmitCases
  <2>5. CASE Chm /\ ~wrapped /\ ~wrapped' /\ boundary' = boundary /\ (said' <=> said)
    <3>1. \A i \in 1 .. Len(opened) : ~opened[i].out
      BY <1>4, <2>5 DEF AgreeInv, ReadingInv, Chm
    <3>2. QED
      BY <1>1, <2>1, <2>4, <2>5, <3>1, AgreeSilent
  <2>6. CASE (wrapped' <=> Chm) /\ (Chm => said') /\ \E b0 : Sends(pieces, b0)
    <3>1. PICK b0 : Sends(pieces, b0)
      BY <2>6
    <3>2. Follows(b0, t, all, Chm \/ said) /\ boundary' = Fold(b0, pieces)
      BY <3>1 DEF Sends
    <3>3. said' => (Chm \/ said) \/ to = Boundaries!Word
      BY <2>2, <2>3, <2>4 DEF Boundaries!Counts, Chm, AgreeInv, ReadingTypes
    <3> HIDE DEF t, all
    <3>4. Follows(Boundaries!Accept(b0, p), t, all, said')
      BY <3>2, <3>3, AcceptText
    <3> HIDE DEF p
    <3>5. boundary' = Boundaries!Accept(b0, p)
      BY <3>2, FoldOne DEF pieces
    <3>6. Follows(boundary', Standing(Chm, opened'), all, said')
      BY <1>1, <3>4, <3>5 DEF t
    <3>7. QED
      BY <1>1, <1>4, <2>1, <2>4, <2>6, <3>6, AgreeSends DEF all
  <2>7. QED
    BY <2>4, <2>5, <2>6
<1>5. QED
  BY <1>1, <1>2, <1>3, <1>4

\* The innermost element of a name is one of the open ones.
LEMMA InnermostIs ==
    ASSUME opened \in Seq(Opened), NEW tag, Boundaries!Innermost(tag) > 0
    PROVE  Boundaries!Innermost(tag) \in 1 .. Len(opened)
<1> DEFINE I == {i \in 1 .. Len(opened) : opened[i].tag = tag}
<1>1. Boundaries!Innermost(tag) = IF I = {} THEN 0 ELSE Top(I)
  BY DEF Boundaries!Innermost, Boundaries!SelectLastInSeq, Boundaries!Max, Top
<1>2. Len(opened) \in Nat /\ I \in SUBSET (1 .. Len(opened))
  OBVIOUS
<1> HIDE DEF I
<1>3. I # {} => Top(I) \in I
  BY <1>2, TopIn
<1>4. I # {}
  <2> SUFFICES ASSUME I = {} PROVE FALSE
    OBVIOUS
  <2>1. Boundaries!Innermost(tag) = 0
    BY <1>1
  <2>2. QED
    BY <2>1
<1>5. Boundaries!Innermost(tag) = Top(I) /\ Top(I) \in I
  BY <1>1, <1>3, <1>4
<1>6. QED
  BY <1>2, <1>5

\* The end tag of an element that is shown.
LEMMA CloseAgrees ==
    ASSUME AgreeInv, stage = "reading", NEW tag, Boundaries!CloseShown(tag)
    PROVE  AgreeInv'
<1> DEFINE index == Boundaries!Innermost(tag)
           pieces == Boundaries!Closing(index)
           t == Standing(Chm, opened)
           all == Sections(Chm, chapter)
           n == Len(opened)
<1>1. /\ UNCHANGED <<markup, chapter, stage>>
      /\ IF markup = "html" THEN Boundaries!Emit(<<Boundaries!Close(tag)>>) /\ UNCHANGED opened
         ELSE index > 0 /\ Boundaries!Emit(pieces) /\ opened' = SubSeq(opened, 1, index - 1)
  BY DEF Boundaries!CloseShown, Boundaries!Go
<1>2. CASE markup = "html"
  <2>1. boundary' = boundary /\ said' \in BOOLEAN /\ wrapped' \in BOOLEAN
    BY <1>1, <1>2 DEF Boundaries!Emit, Boundaries!Parsed, AgreeInv, ReadingTypes
  <2>2. QED
    BY <1>1, <1>2, <2>1, AgreeHtml
<1>3. CASE markup # "html"
  <2>1. /\ markup \in {"url", "chm"} /\ said \in BOOLEAN /\ Chm \in BOOLEAN /\ opened \in Seq(Opened) /\ n \in Nat
        /\ (markup = "url" => ~Chm /\ n <= Depth /\ \A i \in 1 .. n : opened[i].tag \in Boundaries!Shown)
        /\ t \in Seq(Element) /\ Len(t) = n + 1
    BY <1>3, SendTypes
  <2>2. index \in 1 .. n
    BY <1>1, <1>3, <2>1, InnermostIs
  <2>3. index \in 1 .. Len(opened) + 1
    BY <2>1, <2>2
  <2>4. /\ pieces \in Seq(Piece) /\ Len(pieces) = n + 1 - index
        /\ \A i \in 1 .. n + 1 - index : pieces[i] = EndingOf(t[n + 2 - i])
    BY <2>1, <2>3, ClosingIs
  <2> HIDE DEF index, pieces, t, n, all
  <2>5. index - 1 \in 0 .. n /\ index - 1 + 1 = index
    BY <2>1, <2>2
  <2> DEFINE k == index - 1
             fewer == SubSeq(opened, 1, k)
  <2>6. /\ fewer \in Seq(Opened) /\ Len(fewer) = k /\ (\A i \in 1 .. k : fewer[i] = opened[i])
        /\ Standing(Chm, fewer) = SubSeq(t, 1, k + 1)
    <3> HIDE DEF k
    <3>1. QED
      BY <2>1, <2>5, StandingFront DEF k, n, t
  <2>7. opened' = fewer
    BY <1>1, <1>3
  <2> HIDE DEF fewer
  <2>8. ASSUME NEW i \in DOMAIN pieces, markup = "url" PROVE ~Boundaries!Counts(pieces[i])
    <3>1. i \in 1 .. n + 1 - index
      BY <2>4
    <3>2. pieces[i] = EndingOf(t[n + 2 - i])
      BY <2>4, <3>1
    <3>3. EndingOf(t[n + 2 - i]).form # "text" /\ Boundaries!Text(Boundaries!Word).form = "text"
      BY DEF EndingOf, Boundaries!Nothing, Boundaries!Close, Boundaries!Text
    <3>4. pieces[i] # Boundaries!Text(Boundaries!Word)
      BY <3>2, <3>3
    <3>5. QED
      BY <2>8, <3>4 DEF Boundaries!Counts
  <2>9. /\ said' \in BOOLEAN /\ wrapped' \in BOOLEAN
        /\ (said' => said \/ \E i \in DOMAIN pieces : Boundaries!Counts(pieces[i]))
        /\ \/ /\ Chm /\ ~wrapped /\ ~wrapped' /\ boundary' = boundary /\ (said' <=> said)
              /\ \A i \in DOMAIN pieces : ~Boundaries!Counts(pieces[i])
           \/ /\ (wrapped' <=> Chm) /\ (Chm => said')
              /\ \E b0 : Sends(pieces, b0)
    <3>1. Boundaries!Emit(pieces)
      BY <1>1, <1>3
    <3>2. QED
      BY <1>3, <2>4, <3>1, EmitCases
  <2>10. opened' \in Seq(Opened)
    BY <2>6, <2>7
  <2>11. \A i \in 1 .. Len(opened') : i \in 1 .. n /\ opened'[i] = opened[i]
    BY <2>1, <2>2, <2>6, <2>7
  <2>12. CASE Chm /\ ~wrapped /\ ~wrapped' /\ boundary' = boundary /\ (said' <=> said)
    <3>1. \A i \in 1 .. n : ~opened[i].out
      BY <1>3, <2>12 DEF AgreeInv, ReadingInv, Chm, n
    <3>2. \A i \in 1 .. Len(opened') : ~opened'[i].out
      BY <2>11, <3>1
    <3>3. QED
      BY <1>1, <2>9, <2>10, <2>12, <3>2, AgreeSilent
  <2>13. CASE (wrapped' <=> Chm) /\ (Chm => said') /\ \E b0 : Sends(pieces, b0)
    <3>1. PICK b0 : Sends(pieces, b0)
      BY <2>13
    <3>2. Follows(b0, t, all, Chm \/ said) /\ boundary' = Fold(b0, pieces)
      BY <3>1 DEF Sends, t, all
    <3>3. said' => (Chm \/ said)
      BY <1>3, <2>1, <2>8, <2>9 DEF Chm
    <3>4. /\ Len(pieces) <= Len(t) /\ Len(t) - Len(pieces) = k + 1 /\ Len(t) + 1 = n + 2
          /\ \A i \in 1 .. Len(pieces) : Len(t) + 1 - i = n + 2 - i
      <4> DEFINE l == Len(t)
                 m == Len(pieces)
      <4>1. l = n + 1 /\ m = n + 1 - index /\ k = index - 1 /\ n \in Nat /\ index \in 1 .. n
        BY <2>1, <2>2, <2>4
      <4> HIDE DEF l, m, k
      <4>2. m <= l /\ l - m = k + 1 /\ l + 1 = n + 2 /\ \A i \in 1 .. m : l + 1 - i = n + 2 - i
        BY <4>1
      <4>3. QED
        BY <4>2 DEF l, m
    <3>5. \A i \in 1 .. Len(pieces) : pieces[i] = EndingOf(t[Len(t) + 1 - i])
      BY <2>4, <3>4
    <3>6. Follows(Fold(b0, pieces), SubSeq(t, 1, Len(t) - Len(pieces)), all, Chm \/ said)
      BY <2>1, <2>4, <3>2, <3>4, <3>5, AcceptEndings
    <3>7. Follows(boundary', Standing(Chm, opened'), all, Chm \/ said)
      BY <2>6, <2>7, <3>2, <3>4, <3>6
    <3>8. Follows(boundary', Standing(Chm, opened'), all, said')
      BY <3>3, <3>7 DEF Follows
    <3>9. markup = "url" => Len(opened') <= Depth /\ \A i \in 1 .. Len(opened') : opened'[i].tag \in Boundaries!Shown
      <4>1. markup = "url" => Len(opened') <= Depth
        BY <2>1, <2>2, <2>6, <2>7, ReaderAssumption
      <4>2. QED
        BY <2>1, <2>11, <4>1
    <3>10. QED
      BY <1>1, <1>3, <2>9, <2>10, <2>13, <3>8, <3>9, AgreeSends DEF all
  <2>14. QED
    BY <2>9, <2>12, <2>13
<1>4. QED
  BY <1>2, <1>3

\* The end of the input: what is open is closed.
LEMMA FinishAgrees ==
    ASSUME AgreeInv, stage = "reading", Boundaries!Finish
    PROVE  AgreeInv'
<1> DEFINE section == IF wrapped THEN <<Boundaries!Close("section")>> ELSE <<>>
           pieces == Boundaries!Closing(1) \o section
           parsed == Boundaries!Parsed(pieces)
           more_ == markup = "chm" /\ chapter = 1
           t == Standing(wrapped, opened)
           all == Sections(wrapped, chapter)
           n == Len(opened)
<1>1. CASE Boundaries!Refuse
  BY <1>1, AgreeKeep DEF Boundaries!Refuse
<1>2. CASE ~Boundaries!Refuse
  <2>1. /\ said \/ (markup = "chm" /\ chapter # 2)
        /\ opened' = <<>> /\ wrapped' = FALSE
        /\ boundary' = (IF more_ \/ markup = "html" THEN parsed ELSE Boundaries!Complete(parsed))
        /\ chapter' = (IF more_ THEN 2 ELSE chapter)
        /\ stage' = (IF more_ THEN "reading" ELSE "done")
        /\ UNCHANGED <<markup, said>>
    BY <1>2 DEF Boundaries!Finish
  <2>2. ReadingTypes
    BY DEF AgreeInv
  <2>3. CASE markup = "html"
    <3>1. boundary' = boundary /\ opened' = opened /\ chapter' = chapter
      BY <2>1, <2>3 DEF Boundaries!Parsed, AgreeInv
    <3>2. QED
      BY <2>1, <2>2, <2>3, <3>1, AgreeHtml DEF ReadingTypes
  <2>4. CASE markup # "html"
    <3>1. /\ ReadingInv /\ markup \in {"url", "chm"} /\ opened \in Seq(Opened) /\ n \in Nat /\ wrapped \in BOOLEAN
          /\ said \in BOOLEAN /\ chapter \in Boundaries!Topics
      BY <2>2, <2>4 DEF AgreeInv, ReadingTypes
    <3>2. Follows(boundary, t, all, said)
      BY <3>1 DEF ReadingInv
    <3>3. /\ t \in Seq(Element) /\ Len(t) = n + 1 /\ t[1] = IF wrapped THEN "section" ELSE "embed"
      BY <3>1, StandingIs
    <3> DEFINE closing == Boundaries!Closing(1)
    <3>4. /\ closing \in Seq(Piece) /\ Len(closing) = n /\ \A i \in 1 .. n : closing[i] = EndingOf(t[n + 2 - i])
      <4>1. 1 \in 1 .. Len(opened) + 1 /\ Len(opened) + 1 - 1 = n
        BY <3>1
      <4>2. QED
        BY <3>1, <4>1, ClosingIs
    <3>5. section \in Seq(Piece) /\ Len(section) = (IF wrapped THEN 1 ELSE 0)
          /\ (wrapped => section[1] = EndingOf(t[1]))
      <4>1. "section" \in Element /\ 0 \in Nat
        BY DEF Element
      <4>2. Boundaries!Close("section") \in Piece /\ Boundaries!Close("section") = EndingOf("section")
        BY <4>1, PieceForms DEF EndingOf
      <4> HIDE DEF t
      <4>3. QED
        BY <3>1, <3>3, <4>2
    <3> HIDE DEF t, n, all, section, closing
    <3>6. /\ pieces \in Seq(Piece) /\ Len(pieces) = n + Len(section)
          /\ \A i \in 1 .. n : pieces[i] = closing[i]
          /\ (wrapped => pieces[n + 1] = section[1])
      <4>1. /\ pieces \in Seq(Piece) /\ Len(pieces) = Len(closing) + Len(section)
            /\ \A i \in 1 .. Len(closing) : pieces[i] = closing[i]
            /\ \A i \in 1 .. Len(section) : pieces[Len(closing) + i] = section[i]
        <5>1. /\ closing \o section \in Seq(Piece) /\ Len(closing \o section) = Len(closing) + Len(section)
              /\ \A i \in 1 .. Len(closing) : (closing \o section)[i] = closing[i]
              /\ \A i \in 1 .. Len(section) : (closing \o section)[Len(closing) + i] = section[i]
          <6> DEFINE x == closing
                     y == section
                     xy == x \o y
          <6>1. /\ xy \in Seq(Piece) /\ Len(xy) = Len(x) + Len(y)
                /\ \A i \in 1 .. Len(x) + Len(y) : xy[i] = IF i <= Len(x) THEN x[i] ELSE y[i - Len(x)]
            BY <3>4, <3>5, ConcatProperties
          <6>2. Len(x) \in Nat /\ Len(y) \in Nat
            BY <3>4, <3>5
          <6> HIDE DEF x, y, xy
          <6>3. \A i \in 1 .. Len(x) : i \in 1 .. Len(x) + Len(y) /\ i <= Len(x)
            BY <6>2
          <6>4. \A i \in 1 .. Len(y) :
                   Len(x) + i \in 1 .. Len(x) + Len(y) /\ ~(Len(x) + i <= Len(x)) /\ Len(x) + i - Len(x) = i
            BY <6>2
          <6>5. /\ \A i \in 1 .. Len(x) : xy[i] = x[i]
                /\ \A i \in 1 .. Len(y) : xy[Len(x) + i] = y[i]
            BY <6>1, <6>3, <6>4
          <6>6. QED
            BY <6>1, <6>5 DEF x, y, xy
        <5>2. pieces = closing \o section
          BY DEF closing
        <5> HIDE DEF pieces
        <5>3. QED
          BY <5>1, <5>2
      <4> HIDE DEF pieces
      <4>2. wrapped => 1 \in 1 .. Len(section)
        BY <3>5
      <4>3. QED
        BY <3>4, <4>1, <4>2
    <3> HIDE DEF pieces
    <3> DEFINE l == Len(pieces)
    <3>7. l \in Nat /\ n \in Nat /\ l = (IF wrapped THEN n + 1 ELSE n) /\ Len(t) = n + 1
      BY <3>1, <3>3, <3>5, <3>6
    <3>8. \A i \in 1 .. l : pieces[i] = EndingOf(t[Len(t) + 1 - i])
      <4> SUFFICES ASSUME NEW i \in 1 .. l PROVE pieces[i] = EndingOf(t[Len(t) + 1 - i])
        OBVIOUS
      <4>1. Len(t) + 1 - i = n + 2 - i
        <5> HIDE DEF l
        <5>1. QED
          BY <3>7
      <4>2. i \in 1 .. n \/ (wrapped /\ i = n + 1)
        <5> HIDE DEF l
        <5>1. QED
          BY <3>1, <3>7
      <4>3. n + 2 - (n + 1) = 1
        BY <3>7
      <4>4. QED
        BY <3>4, <3>5, <3>6, <4>1, <4>2, <4>3
    <3> DEFINE ended == Fold(boundary, pieces)
               standing == SubSeq(t, 1, Len(t) - l)
    <3>9. Follows(ended, standing, all, said)
      <4>1. Len(pieces) <= Len(t)
        <5> DEFINE given == Len(pieces)
                   width == Len(t)
        <5>1. given \in Nat /\ n \in Nat /\ given = (IF wrapped THEN n + 1 ELSE n) /\ width = n + 1
          BY <3>7
        <5> HIDE DEF given, width
        <5>2. given <= width
          BY <5>1
        <5>3. QED
          BY <5>2 DEF given, width
      <4>2. QED
        BY <3>2, <3>3, <3>6, <3>8, <4>1, AcceptEndings
    <3>10. \A i \in 1 .. Len(standing) : standing[i] = "embed"
      <4>1. CASE wrapped
        <5>1. Len(t) - l = 0
          <6> HIDE DEF l
          <6>1. QED
            BY <3>7, <4>1
        <5>2. standing = SubSeq(t, 1, 0)
          BY <5>1
        <5>3. SubSeq(t, 1, 0) = <<>>
          BY <3>3
        <5>4. Len(standing) = 0
          <6>1. standing = <<>>
            BY <5>2, <5>3
          <6> HIDE DEF standing
          <6>2. QED
            BY <6>1
        <5> HIDE DEF standing
        <5>5. QED
          BY <5>4
      <4>2. CASE ~wrapped
        <5>1. Len(t) - l = 1
          <6> HIDE DEF l
          <6>1. QED
            BY <3>7, <4>2
        <5>2. standing = SubSeq(t, 1, 1) /\ t # <<>>
          BY <3>3, <3>7, <5>1
        <5>3. Len(SubSeq(t, 1, 1)) = 1 /\ SubSeq(t, 1, 1)[1] = t[1]
          BY <3>3, <5>2
        <5>4. Len(standing) = 1 /\ standing[1] = "embed"
          BY <3>3, <4>2, <5>2, <5>3
        <5> HIDE DEF standing
        <5>5. \A i \in 1 .. 1 : i = 1
          OBVIOUS
        <5>6. QED
          BY <5>4, <5>5
      <4>3. QED
        BY <4>1, <4>2
    <3>11. parsed = ended
      BY <2>4 DEF Boundaries!Parsed, Fold
    <3> HIDE DEF ended, standing, l, parsed
    <3>12. ended \in Parser /\ (ended.why = "none" => ended.stack = <<>>)
      <4>1. ended \in Parser /\ ended.stack \in Seq(Element)
        BY <3>9 DEF Follows, Parser
      <4>2. QED
        BY <3>9, <3>10, <4>1, NothingStands DEF Follows
    <3>13. CASE more_
      <4>1. boundary' = ended /\ chapter' = 2 /\ chapter = 1 /\ stage' = "reading" /\ markup = "chm"
        BY <2>1, <3>11, <3>13
      <4>2. <<>> \in Seq(Opened) /\ FALSE \in BOOLEAN /\ \A i \in 1 .. Len(<<>>) : ~(<<>>[i].out)
        OBVIOUS
      <4>3. \A i \in 1 .. Len(Standing(FALSE, <<>>)) : Standing(FALSE, <<>>)[i] = "embed"
        BY <4>2, AllHidden
      <4>4. ended.why = "none" => Within(ended.stack, Standing(FALSE, <<>>))
        BY <3>12, <4>3, NothingWithin
      <4>5. all \subseteq Sections(FALSE, 2)
        BY <3>1, <4>1 DEF all, Sections, Boundaries!Topics
      <4>6. Follows(ended, Standing(FALSE, <<>>), Sections(FALSE, 2), said)
        BY <3>9, <4>4, <4>5 DEF Follows
      <4>7. Follows(boundary', Standing(wrapped', opened'), Sections(wrapped', chapter'), said')
        BY <2>1, <4>1, <4>6
      <4>8. /\ chapter' \in Boundaries!Topics /\ said' \in BOOLEAN /\ wrapped' \in BOOLEAN /\ opened' \in Seq(Opened)
            /\ markup # "url" /\ \A i \in 1 .. Len(opened') : ~opened'[i].out
        <5>1. opened' \in Seq(Opened) /\ \A i \in 1 .. Len(opened') : ~opened'[i].out
          BY <2>1, <4>2
        <5>2. chapter' \in Boundaries!Topics /\ said' \in BOOLEAN /\ wrapped' \in BOOLEAN /\ markup # "url"
          <6>1. 2 \in Boundaries!Topics /\ FALSE \in BOOLEAN
            BY DEF Boundaries!Topics
          <6>2. said' = said
            BY <2>1
          <6>3. QED
            BY <2>1, <3>1, <4>1, <6>1, <6>2
        <5>3. QED
          BY <5>1, <5>2
      <4>9. Chm => IF wrapped' THEN said' ELSE \A i \in 1 .. Len(opened') : ~opened'[i].out
        BY <2>1, <4>8
      <4>10. markup' = markup
        BY <2>1
      <4>11. QED
        BY <2>4, <4>1, <4>7, <4>8, <4>9, <4>10, AgreeFollows
    <3>14. CASE ~more_
      <4>1. /\ boundary' = Boundaries!Complete(ended) /\ stage' = "done" /\ chapter' = chapter /\ said /\ said' = said
            /\ opened' = <<>> /\ wrapped' = FALSE /\ markup' = markup
        BY <2>1, <2>4, <3>1, <3>11, <3>14 DEF Boundaries!Topics
      <4>2. boundary'.why \in Bearable \cup {"links"}
        <5>1. CASE ended.why # "none"
          BY <3>9, <4>1, <5>1 DEF Boundaries!Complete, Follows
        <5>2. CASE ended.why = "none"
          <6>1. ended.stack = <<>> /\ ended.printable
            BY <3>9, <3>12, <4>1, <5>2 DEF Follows
          <6>2. boundary' = [ended EXCEPT !.why = IF ended.links \subseteq ended.topics THEN "none" ELSE "links"]
            BY <4>1, <5>2, <6>1 DEF Boundaries!Complete
          <6>3. boundary'.why = IF ended.links \subseteq ended.topics THEN "none" ELSE "links"
            BY <3>12, <6>2 DEF Parser
          <6>4. QED
            BY <6>3 DEF Bearable
        <5>3. QED
          BY <5>1, <5>2
      <4>3. markup = "url" => boundary'.why = "none"
        <5> SUFFICES ASSUME markup = "url" PROVE boundary'.why = "none"
          OBVIOUS
        <5>1. ended.why = "none" /\ ended.links = {}
          BY <3>9 DEF Follows, Bearable
        <5>2. ended.stack = <<>> /\ ended.printable
          BY <3>9, <3>12, <4>1, <5>1 DEF Follows
        <5>3. boundary' = [ended EXCEPT !.why = "none"]
          BY <4>1, <5>1, <5>2 DEF Boundaries!Complete
        <5>4. QED
          BY <3>12, <5>3 DEF Parser
      <4>4. Boundaries!BoundaryAgrees'
        BY <3>1, <4>1, <4>2, <4>3 DEF Boundaries!BoundaryAgrees, Bearable
      <4>5. ReadingTypes'
        <5>1. <<>> \in Seq(Opened) /\ FALSE \in BOOLEAN
          OBVIOUS
        <5>2. QED
          BY <2>2, <4>1, <5>1 DEF ReadingTypes
      <4>6. QED
        BY <2>4, <4>1, <4>4, <4>5 DEF AgreeInv
    <3>15. QED
      BY <3>13, <3>14
  <2>5. QED
    BY <2>3, <2>4
<1>3. QED
  BY <1>1, <1>2

-----------------------------------------------------------------------------
LEMMA AgreeInit == Boundaries!Init => AgreeInv
<1> SUFFICES ASSUME Boundaries!Init PROVE AgreeInv
  OBVIOUS
<1>1. /\ markup \in {"url", "chm", "html"} /\ chapter = 1 /\ opened = <<>> /\ said = FALSE /\ wrapped = FALSE
      /\ boundary = Boundaries!Fresh /\ stage = "reading"
  BY DEF Boundaries!Init, Boundaries!Hides
<1>2. <<>> \in Seq(Opened) /\ FALSE \in BOOLEAN /\ (\A i \in 1 .. Len(<<>>) : ~(<<>>[i].out)) /\ Len(<<>>) = 0
  OBVIOUS
<1>3. \A i \in 1 .. Len(Standing(FALSE, <<>>)) : Standing(FALSE, <<>>)[i] = "embed"
  BY <1>2, AllHidden
<1>4. Within(<<>>, Standing(FALSE, <<>>))
  BY <1>3, NothingWithin
<1>5. /\ boundary.stack = <<>> /\ boundary.topics = {} /\ boundary.links = {} /\ boundary.pictures = 0
      /\ boundary.printable = FALSE /\ boundary.why = "none"
  BY <1>1 DEF Boundaries!Fresh
<1>6. boundary \in Parser
  <2>1. <<>> \in Seq(Element)
    OBVIOUS
  <2>2. QED
    BY <1>1, <2>1 DEF Boundaries!Fresh, Parser
<1>7. Follows(boundary, Standing(wrapped, opened), Sections(wrapped, chapter), said)
  BY <1>1, <1>4, <1>5, <1>6 DEF Follows, Bearable
<1>8. ReadingInv
  <2>1. 0 <= Depth
    BY ReaderAssumption
  <2>2. QED
    BY <1>1, <1>2, <1>7, <2>1 DEF ReadingInv
<1>9. ReadingTypes
  <2>1. 1 \in Boundaries!Topics
    BY DEF Boundaries!Topics
  <2>2. QED
    BY <1>1, <1>2, <2>1 DEF ReadingTypes
<1>10. QED
  BY <1>1, <1>8, <1>9 DEF AgreeInv, Boundaries!BoundaryAgrees

LEMMA AgreeStep == AgreeInv /\ [Boundaries!Next]_html => AgreeInv'
<1> SUFFICES ASSUME AgreeInv, [Boundaries!Next]_html PROVE AgreeInv'
  OBVIOUS
<1>1. CASE UNCHANGED html
  <2>1. UNCHANGED <<markup, chapter, said, wrapped, boundary, opened, stage>>
    BY <1>1 DEF html
  <2>2. CASE stage = "reading"
    BY <2>1, <2>2, AgreeKeep
  <2>3. CASE stage # "reading"
    BY <2>1, <2>3 DEF AgreeInv, ReadingTypes, Boundaries!BoundaryAgrees, Boundaries!Fresh
  <2>4. QED
    BY <2>2, <2>3
<1>2. CASE Boundaries!Next
  <2>1. stage = "reading"
    BY <1>2 DEF Boundaries!Next
  <2>2. ASSUME NEW tag \in Boundaries!Tag, NEW slash \in BOOLEAN, Boundaries!Start(tag, slash)
        PROVE  AgreeInv'
    <3>1. CASE Boundaries!Hide(tag, slash) \/ Boundaries!Skip(tag)
      <4>1. UNCHANGED <<markup, chapter, said, wrapped, boundary, opened>> /\ stage' \in {stage, "refused"}
        BY <3>1 DEF Boundaries!Hide, Boundaries!Skip, Boundaries!Refuse, Boundaries!Go, Boundaries!EmitNothing
      <4>2. QED
        BY <2>1, <4>1, AgreeKeep
    <3>2. CASE Boundaries!Show(tag, slash)
      BY <2>1, <3>2, ShowAgrees
    <3>3. QED
      BY <2>2, <3>1, <3>2 DEF Boundaries!Start
  <2>3. ASSUME NEW tag \in Boundaries!Tag \cup {"a"}, Boundaries!End(tag)
        PROVE  AgreeInv'
    <3>1. CASE Boundaries!CloseHidden(tag)
      <4>1. UNCHANGED <<markup, chapter, said, wrapped, boundary, opened>> /\ stage' \in {stage, "refused"}
        BY <3>1 DEF Boundaries!CloseHidden, Boundaries!Refuse, Boundaries!Go, Boundaries!EmitNothing
      <4>2. QED
        BY <2>1, <4>1, AgreeKeep
    <3>2. CASE Boundaries!CloseShown(tag)
      BY <2>1, <3>2, CloseAgrees
    <3>3. QED
      BY <2>3, <3>1, <3>2 DEF Boundaries!End
  <2>4. ASSUME NEW known_ \in BOOLEAN, NEW to \in Boundaries!Topics, Boundaries!Link(known_, to)
        PROVE  AgreeInv'
    BY <2>1, <2>4, LinkAgrees
  <2>5. ASSUME NEW image \in Boundaries!Picture, Boundaries!DrawImage(image)
        PROVE  AgreeInv'
    BY <2>1, <2>5, DrawAgrees
  <2>6. ASSUME NEW to \in {Boundaries!Spaces, Boundaries!Word}, Boundaries!Data(to)
        PROVE  AgreeInv'
    BY <2>1, <2>6, DataAgrees
  <2>7. CASE Boundaries!Finish
    BY <2>1, <2>7, FinishAgrees
  <2>8. QED
    BY <1>2, <2>2, <2>3, <2>4, <2>5, <2>6, <2>7 DEF Boundaries!Next
<1>3. QED
  BY <1>1, <1>2

\* What a reader finishes is accepted by the parser behind it: no tag of it is
\* foreign to that parser, none is closed out of order or left open, no finished
\* page is blank; a CHM alone may be refused as a whole, for its depth, its
\* pictures or a link to a chapter that was left out - however deep the page is
\* nested and however long it is (_SanitizedDocument and _StrictOfflineHtml,
\* _Chapter and _CHMFragment).
THEOREM ReadersAgree == Spec => []BoundaryAgrees
<1> DEFINE Inv == focus = "html" => AgreeInv
<1>1. Init => Inv
  BY AgreeInit DEF Init
<1>2. Inv /\ [Next]_vars => Inv'
  BY HtmlFocus, AgreeStep
<1>3. Inv => BoundaryAgrees
  BY DEF BoundaryAgrees, AgreeInv
<1>4. QED
  BY <1>1, <1>2, <1>3, PTL DEF Spec

-----------------------------------------------------------------------------
(* How large the second parser's state grows: a page stands on the parser's *)
(* stack no deeper than Depth and shows no more than MaxPictures pictures,  *)
(* save for the piece that is refused for it.                               *)
Sized(b) ==
    /\ b \in Parser /\ b.pictures <= MaxPictures + 1 /\ Len(b.stack) <= Depth + 1
    /\ b.why = "none" => b.pictures <= MaxPictures /\ Len(b.stack) <= Depth

\* What a reader may emit: an element, and a link to a chapter there is.
Sendable == {p \in Piece : p.form = "open" => p.tag \in Element /\ (p.tag \in {"section", "a"} => p.to \in Boundaries!Topics)}

SizedInv ==
    /\ Sized(boundary)
    /\ drawn \subseteq Boundaries!Picture /\ Cardinality(drawn) <= MaxPictures

LEMMA SizedOpen ==
    ASSUME NEW b, Sized(b), b.why = "none", NEW p \in Sendable, p.form = "open"
    PROVE  Sized(Boundaries!AcceptOpen(b, p))
<1> DEFINE pushed == IF p.tag \in Boundaries!Empty \cup {"img"} THEN b.stack ELSE Append(b.stack, p.tag)
           images == b.pictures + (IF p.tag = "img" THEN 1 ELSE 0)
           a == Boundaries!AcceptOpen(b, p)
<1>1. /\ p.tag \in Element /\ (p.tag \in {"section", "a"} => p.to \in Boundaries!Topics)
      /\ b \in Parser /\ b.stack \in Seq(Element) /\ b.pictures \in Nat /\ Len(b.stack) \in Nat
      /\ b.pictures <= MaxPictures /\ Len(b.stack) <= Depth
  BY DEF Sized, Sendable, Parser
<1>2. /\ pushed \in Seq(Element) /\ images \in Nat /\ images <= MaxPictures + 1
      /\ Len(pushed) \in Nat /\ Len(pushed) <= Depth + 1
  <2>1. images = b.pictures \/ images = b.pictures + 1
    BY <1>1
  <2>2. pushed = b.stack \/ pushed = Append(b.stack, p.tag)
    OBVIOUS
  <2>3. Append(b.stack, p.tag) \in Seq(Element) /\ Len(Append(b.stack, p.tag)) = Len(b.stack) + 1
    BY <1>1
  <2> HIDE DEF images, pushed
  <2>4. images \in Nat /\ images <= MaxPictures + 1
    BY <1>1, <2>1, ReaderAssumption
  <2>5. pushed \in Seq(Element) /\ (Len(pushed) = Len(b.stack) \/ Len(pushed) = Len(b.stack) + 1)
    BY <1>1, <2>2, <2>3
  <2>6. Len(pushed) \in Nat /\ Len(pushed) <= Depth + 1
    BY <1>1, <2>5, ReaderAssumption
  <2>7. QED
    BY <2>4, <2>5, <2>6
<1> DEFINE topics_ == IF p.tag = "section" THEN b.topics \cup {p.to} ELSE b.topics
           links_ == IF p.tag = "a" THEN b.links \cup {p.to} ELSE b.links
           why_ == IF p.tag \notin Boundaries!Permitted \/ (p.tag = "section" /\ p.to \in b.topics) THEN "element"
                   ELSE IF images > MaxPictures THEN "pictures"
                   ELSE IF Len(pushed) > Depth THEN "depth" ELSE b.why
<1>3. a = [stack |-> pushed, topics |-> topics_, links |-> links_, pictures |-> images,
           printable |-> b.printable, why |-> why_]
  <2>1. a = [b EXCEPT !.stack = pushed, !.pictures = images, !.topics = topics_, !.links = links_, !.why = why_]
    BY DEF Boundaries!AcceptOpen
  <2> HIDE DEF a, pushed, images, topics_, links_, why_
  <2>2. QED
    BY <1>1, <2>1 DEF Parser
<1>4. /\ topics_ \in SUBSET Boundaries!Topics /\ links_ \in SUBSET Boundaries!Topics /\ b.printable \in BOOLEAN
      /\ why_ \in {"none", "element", "pictures", "depth"}
  BY <1>1 DEF Parser
<1>5. why_ = "none" => images <= MaxPictures /\ Len(pushed) <= Depth
  <2>1. why_ = "none" => ~(images > MaxPictures) /\ ~(Len(pushed) > Depth)
    OBVIOUS
  <2> HIDE DEF a, pushed, images, why_
  <2>2. QED
    BY <1>2, <2>1, ReaderAssumption
<1> HIDE DEF a, pushed, images, topics_, links_, why_
<1>6. a \in Parser
  BY <1>2, <1>3, <1>4 DEF Parser
<1>7. a.why = why_ /\ a.stack = pushed /\ a.pictures = images
  BY <1>3
<1>8. QED
  BY <1>2, <1>5, <1>6, <1>7 DEF Sized, a

LEMMA SizedAccept ==
    ASSUME NEW b, Sized(b), NEW p \in Sendable
    PROVE  Sized(Boundaries!Accept(b, p))
<1>1. CASE b.why # "none" \/ p.form = "nothing"
  BY <1>1 DEF Boundaries!Accept
<1>2. CASE b.why = "none" /\ p.form = "open"
  BY <1>2, SizedOpen DEF Boundaries!Accept
<1>3. CASE b.why = "none" /\ p.form = "close"
  <2>1. Boundaries!Accept(b, p) = Boundaries!AcceptClose(b, p)
    BY <1>3 DEF Boundaries!Accept
  <2>2. b \in Parser /\ b.stack \in Seq(Element) /\ Len(b.stack) <= Depth /\ b.pictures <= MaxPictures
    BY <1>3 DEF Sized, Parser
  <2>3. CASE b.stack # <<>> /\ Boundaries!Last(b.stack) = p.tag
    <3> DEFINE front == SubSeq(b.stack, 1, Len(b.stack) - 1)
    <3>1. front \in Seq(Element) /\ Len(front) <= Depth /\ Len(front) <= Depth + 1
      BY <2>2, <2>3, ReaderAssumption
    <3> HIDE DEF front
    <3>2. Boundaries!AcceptClose(b, p) = [b EXCEPT !.stack = front]
      BY <2>3 DEF Boundaries!AcceptClose, Boundaries!Front, front
    <3>3. [b EXCEPT !.stack = front] \in Parser
      BY <2>2, <3>1 DEF Parser
    <3>4. [b EXCEPT !.stack = front].stack = front /\ [b EXCEPT !.stack = front].pictures = b.pictures
      BY <2>2 DEF Parser
    <3>5. QED
      BY <2>1, <2>2, <3>1, <3>2, <3>3, <3>4 DEF Sized
  <2>4. CASE ~(b.stack # <<>> /\ Boundaries!Last(b.stack) = p.tag)
    BY <2>1, <2>2, <2>4 DEF Boundaries!AcceptClose, Sized, Parser
  <2>5. QED
    BY <2>3, <2>4
<1>4. CASE b.why = "none" /\ p.form = "text"
  <2>1. Boundaries!Accept(b, p) = [b EXCEPT !.printable = @ \/ p.to = Boundaries!Word]
    BY <1>4 DEF Boundaries!Accept
  <2>2. b.printable \in BOOLEAN /\ (b.printable \/ p.to = Boundaries!Word) \in BOOLEAN
    BY DEF Sized, Parser
  <2>3. QED
    BY <2>1, <2>2 DEF Sized, Parser
<1>5. p.form \in {"open", "close", "text", "nothing"}
  BY DEF Sendable, Piece
<1>6. QED
  BY <1>1, <1>2, <1>3, <1>4, <1>5

LEMMA SizedFold ==
    ASSUME NEW b, Sized(b), NEW s \in Seq(Sendable)
    PROVE  Sized(Fold(b, s))
<1> DEFINE n == Len(s)
<1>1. PICK r : Runs(r, b, s) /\ Fold(b, s) = r[n]
  BY FoldRuns
<1>2. n \in Nat /\ \A i \in 1 .. n : s[i] \in Sendable
  OBVIOUS
<1> DEFINE Bad == {i \in 0 .. n : ~Sized(r[i])}
<1>3. Bad = {}
  <2> SUFFICES ASSUME Bad # {} PROVE FALSE
    OBVIOUS
  <2>1. PICK i \in Bad : \A k \in Bad : i <= k
    <3>1. Bad \subseteq Nat
      BY <1>2
    <3> HIDE DEF Bad
    <3>2. QED
      BY <3>1, SmallestNumber
  <2> HIDE DEF n
  <2>2. CASE i = 0
    BY <1>1, <2>1, <2>2 DEF Runs
  <2>3. CASE i > 0
    <3>1. i \in 1 .. n /\ i - 1 \in 0 .. n /\ ~(i <= i - 1)
      BY <1>2, <2>1, <2>3
    <3>2. Sized(r[i - 1]) /\ s[i] \in Sendable
      BY <1>2, <2>1, <3>1
    <3>3. r[i] = Boundaries!Accept(r[i - 1], s[i])
      BY <1>1, <3>1 DEF Runs, n
    <3>4. Sized(r[i])
      BY <3>2, <3>3, SizedAccept
    <3>5. QED
      BY <2>1, <3>4
  <2>4. QED
    BY <1>2, <2>1, <2>2, <2>3
<1>4. n \in 0 .. n
  BY <1>2
<1>5. QED
  BY <1>1, <1>3, <1>4

LEMMA SizedParsed ==
    ASSUME Sized(boundary), NEW s \in Seq(Sendable)
    PROVE  Sized(Boundaries!Parsed(s)) /\ Sized(Boundaries!Complete(Boundaries!Parsed(s)))
<1> DEFINE b == Boundaries!Parsed(s)
<1>1. Sized(b)
  BY SizedFold DEF Boundaries!Parsed, Fold
<1> HIDE DEF b
<1>2. Sized(Boundaries!Complete(b))
  <2>1. CASE b.why # "none"
    BY <1>1, <2>1 DEF Boundaries!Complete
  <2>2. CASE b.why = "none"
    <3>1. PICK why_ \in {"unbalanced", "blank", "none", "links"} : Boundaries!Complete(b) = [b EXCEPT !.why = why_]
      BY <2>2 DEF Boundaries!Complete
    <3>2. QED
      BY <1>1, <2>2, <3>1 DEF Sized, Parser
  <2>3. QED
    BY <2>1, <2>2
<1>3. QED
  BY <1>1, <1>2 DEF b

LEMMA SendableForms ==
    ASSUME NEW tag \in Element, NEW to \in Nat, tag \in {"section", "a"} => to \in Boundaries!Topics
    PROVE  /\ Boundaries!Open(tag, to) \in Sendable /\ Boundaries!Close(tag) \in Sendable
           /\ Boundaries!Text(to) \in Sendable /\ Boundaries!Nothing \in Sendable
<1>1. Boundaries!Nothing \in Piece
  BY DEF Boundaries!Nothing, Piece
<1>2. QED
  BY <1>1, PieceForms DEF Sendable, Boundaries!Open, Boundaries!Close, Boundaries!Text, Boundaries!Nothing

LEMMA SizedEmit ==
    ASSUME Sized(boundary), chapter \in Boundaries!Topics, NEW pieces \in Seq(Sendable), Boundaries!Emit(pieces)
    PROVE  Sized(boundary')
<1> DEFINE label == Boundaries!Label
<1>1. label \in Seq(Sendable)
  <2>1. "section" \in Element /\ "h2" \in Element /\ chapter \in Nat /\ 0 \in Nat /\ Boundaries!Word \in Nat
    BY DEF Element, Boundaries!Topics, Boundaries!Word
  <2>2. /\ Boundaries!Open("section", chapter) \in Sendable /\ Boundaries!Open("h2", 0) \in Sendable
        /\ Boundaries!Text(Boundaries!Word) \in Sendable /\ Boundaries!Close("h2") \in Sendable
    BY <2>1, SendableForms
  <2>3. QED
    BY <2>2 DEF Boundaries!Label
<1> HIDE DEF label
<1>2. label \o pieces \in Seq(Sendable)
  BY <1>1
<1>3. Sized(Boundaries!Parsed(label \o pieces)) /\ Sized(Boundaries!Parsed(pieces))
  BY <1>2, SizedParsed
<1>4. QED
  BY <1>3 DEF Boundaries!Emit, label

LEMMA ClosingSendable ==
    ASSUME opened \in Seq(Opened), NEW index \in 1 .. Len(opened) + 1
    PROVE  Boundaries!Closing(index) \in Seq(Sendable)
<1> DEFINE n == Len(opened)
           pieces == Boundaries!Closing(index)
<1>1. n \in Nat /\ \A i \in 1 .. n : opened[i] \in Opened
  OBVIOUS
<1>2. pieces = [i \in 1 .. n + 1 - index |-> Boundaries!Ending(opened[n + 1 - i])]
  BY DEF Boundaries!Closing
<1> HIDE DEF n, pieces
<1>3. ASSUME NEW i \in 1 .. n PROVE Boundaries!Ending(opened[i]) \in Sendable
  <2>1. opened[i].tag \in Element
    BY <1>1 DEF Opened, Element, Boundaries!Tag
  <2>2. 1 \in Nat /\ 1 \in Boundaries!Topics
    BY DEF Boundaries!Topics
  <2>3. Boundaries!Close(opened[i].tag) \in Sendable /\ Boundaries!Nothing \in Sendable
    BY <2>1, <2>2, SendableForms
  <2>4. QED
    BY <2>3 DEF Boundaries!Ending
<1>4. \A i \in 1 .. n + 1 - index : n + 1 - i \in 1 .. n
  BY <1>1 DEF n
<1>5. n + 1 - index \in Nat
  BY <1>1 DEF n
<1>6. pieces \in [1 .. n + 1 - index -> Sendable]
  BY <1>2, <1>3, <1>4
<1>7. QED
  BY <1>5, <1>6 DEF pieces

\* A step that leaves the parser and the pictures alone.
LEMMA SizedStands ==
    ASSUME SizedInv, UNCHANGED <<boundary, drawn>>
    PROVE  SizedInv'
BY DEF SizedInv, Sized, Parser

LEMMA SizedInit == Boundaries!Init => SizedInv
<1> SUFFICES ASSUME Boundaries!Init PROVE SizedInv
  OBVIOUS
<1>1. drawn = {} /\ boundary = Boundaries!Fresh /\ Cardinality({}) = 0
  BY FS_EmptySet DEF Boundaries!Init
<1>2. <<>> \in Seq(Element) /\ Len(<<>>) = 0
  OBVIOUS
<1>3. Boundaries!Fresh \in Parser
  BY <1>2 DEF Boundaries!Fresh, Parser
<1>4. /\ Boundaries!Fresh.stack = <<>> /\ Boundaries!Fresh.pictures = 0
      /\ 0 <= MaxPictures /\ 0 <= MaxPictures + 1 /\ 0 <= Depth /\ 0 <= Depth + 1
  BY ReaderAssumption DEF Boundaries!Fresh
<1>5. Sized(boundary)
  BY <1>1, <1>2, <1>3, <1>4 DEF Sized
<1>6. QED
  BY <1>1, <1>4, <1>5 DEF SizedInv

\* A step that emits.
LEMMA SizedEmits ==
    ASSUME AgreeInv, SizedInv, NEW pieces \in Seq(Sendable), Boundaries!Emit(pieces), drawn' = drawn
    PROVE  SizedInv'
<1>1. chapter \in Boundaries!Topics /\ Sized(boundary)
  BY DEF AgreeInv, ReadingTypes, SizedInv
<1>2. Sized(boundary')
  BY <1>1, SizedEmit
<1>3. QED
  BY <1>2 DEF SizedInv, Sized, Parser

LEMMA SizedShow ==
    ASSUME AgreeInv, SizedInv, NEW tag \in Boundaries!Tag, NEW slash \in BOOLEAN, Boundaries!Show(tag, slash)
    PROVE  SizedInv'
<1>1. CASE Boundaries!Refuse
  BY <1>1, SizedStands DEF Boundaries!Refuse
<1>2. CASE ~Boundaries!Refuse
  <2>1. PICK pieces \in {<<Boundaries!Open(tag, 0), Boundaries!Close(tag)>>, <<Boundaries!Open(tag, 0)>>} :
             Boundaries!Emit(pieces)
    BY <1>2 DEF Boundaries!Show
  <2>2. tag \in Element /\ 0 \in Nat /\ tag \notin {"section", "a"}
    BY DEF Element, Boundaries!Tag, Boundaries!Shown, Boundaries!Empty, Boundaries!HtmlVoid
  <2>3. Boundaries!Open(tag, 0) \in Sendable /\ Boundaries!Close(tag) \in Sendable
    BY <2>2, SendableForms
  <2>4. pieces \in Seq(Sendable)
    <3>1. <<Boundaries!Open(tag, 0), Boundaries!Close(tag)>> \in Seq(Sendable)
      BY <2>3
    <3>2. <<Boundaries!Open(tag, 0)>> \in Seq(Sendable)
      BY <2>3
    <3>3. QED
      BY <2>1, <3>1, <3>2
  <2>5. drawn' = drawn
    BY <1>2 DEF Boundaries!Show, Boundaries!Go
  <2>6. QED
    BY <2>1, <2>4, <2>5, SizedEmits
<1>3. QED
  BY <1>1, <1>2

LEMMA SizedLink ==
    ASSUME AgreeInv, SizedInv, NEW known_ \in BOOLEAN, NEW to \in Boundaries!Topics, Boundaries!Link(known_, to)
    PROVE  SizedInv'
<1>1. drawn' = drawn
  BY DEF Boundaries!Link, Boundaries!Go, Boundaries!Refuse
<1>2. CASE Boundaries!Emit(<<Boundaries!Open("a", to)>>)
  <2>1. "a" \in Element /\ to \in Nat
    BY DEF Element, Boundaries!Topics
  <2>2. Boundaries!Open("a", to) \in Sendable
    BY <2>1, SendableForms
  <2>3. <<Boundaries!Open("a", to)>> \in Seq(Sendable)
    BY <2>2
  <2>4. QED
    BY <1>1, <1>2, <2>3, SizedEmits
<1>3. CASE boundary' = boundary
  BY <1>1, <1>3, SizedStands
<1>4. QED
  BY <1>2, <1>3 DEF Boundaries!Link, Boundaries!Refuse, Boundaries!EmitNothing

LEMMA SizedDraw ==
    ASSUME AgreeInv, SizedInv, NEW image \in Boundaries!Picture, Boundaries!DrawImage(image)
    PROVE  SizedInv'
<1>1. CASE Boundaries!Refuse
  BY <1>1, SizedStands DEF Boundaries!Refuse
<1>2. CASE ~Boundaries!Refuse
  <2> DEFINE more == drawn \cup {image}
  <2>1. /\ drawn' = more /\ ~(Boundaries!Cardinality(more) > MaxPictures)
        /\ Boundaries!Emit(<<Boundaries!Open("img", 0)>>)
    BY <1>2 DEF Boundaries!DrawImage
  <2>2. more \subseteq Boundaries!Picture /\ IsFiniteSet(Boundaries!Picture)
    <3>1. IsFiniteSet({}) /\ IsFiniteSet({} \cup {"i1"}) /\ IsFiniteSet({} \cup {"i1"} \cup {"i2"})
      BY FS_EmptySet, FS_AddElement
    <3>2. Boundaries!Picture = {} \cup {"i1"} \cup {"i2"}
      BY DEF Boundaries!Picture
    <3>3. QED
      BY <3>1, <3>2 DEF SizedInv
  <2> HIDE DEF more
  <2>3. Cardinality(more) \in Nat
    BY <2>2, FS_Subset, FS_CardinalityType
  <2>4. Boundaries!Cardinality(more) = Cardinality(more)
    BY DEF Boundaries!Cardinality, Cardinality
  <2>5. Cardinality(more) <= MaxPictures
    BY <2>1, <2>3, <2>4, ReaderAssumption
  <2>6. "img" \in Element /\ 0 \in Nat
    BY DEF Element
  <2>7. Boundaries!Open("img", 0) \in Sendable
    BY <2>6, SendableForms
  <2>8. <<Boundaries!Open("img", 0)>> \in Seq(Sendable)
    BY <2>7
  <2>9. Sized(boundary')
    BY <2>1, <2>8, SizedEmit DEF AgreeInv, ReadingTypes, SizedInv
  <2>10. QED
    BY <2>1, <2>2, <2>5, <2>9 DEF SizedInv, Sized, Parser, Boundaries!Picture
<1>3. QED
  BY <1>1, <1>2

LEMMA SizedClose ==
    ASSUME AgreeInv, SizedInv, NEW tag, Boundaries!CloseShown(tag)
    PROVE  SizedInv'
<1>1. drawn' = drawn /\ tag \in Boundaries!Shown \cup {"a"} /\ opened \in Seq(Opened)
  BY DEF Boundaries!CloseShown, Boundaries!Go, AgreeInv, ReadingTypes
<1>2. CASE Boundaries!Emit(<<Boundaries!Close(tag)>>)
  <2>1. tag \in Element /\ 1 \in Nat /\ 1 \in Boundaries!Topics
    BY <1>1 DEF Element, Boundaries!Tag, Boundaries!Topics
  <2>2. Boundaries!Close(tag) \in Sendable
    BY <2>1, SendableForms
  <2>3. <<Boundaries!Close(tag)>> \in Seq(Sendable)
    BY <2>2
  <2>4. QED
    BY <1>1, <1>2, <2>3, SizedEmits
<1>3. CASE Boundaries!Innermost(tag) > 0 /\ Boundaries!Emit(Boundaries!Closing(Boundaries!Innermost(tag)))
  <2> DEFINE index == Boundaries!Innermost(tag)
  <2>1. index \in 1 .. Len(opened) /\ Len(opened) \in Nat
    BY <1>1, <1>3, InnermostIs
  <2> HIDE DEF index
  <2>2. index \in 1 .. Len(opened) + 1
    BY <2>1
  <2>3. Boundaries!Closing(index) \in Seq(Sendable)
    BY <1>1, <2>2, ClosingSendable
  <2>4. QED
    BY <1>1, <1>3, <2>3, SizedEmits DEF index
<1>4. QED
  BY <1>2, <1>3 DEF Boundaries!CloseShown

LEMMA SizedData ==
    ASSUME AgreeInv, SizedInv, NEW to \in {Boundaries!Spaces, Boundaries!Word}, Boundaries!Data(to)
    PROVE  SizedInv'
<1>1. drawn' = drawn
  BY DEF Boundaries!Data, Boundaries!Go
<1>2. CASE Boundaries!Emit(<<Boundaries!Text(to)>>)
  <2>1. "p" \in Element /\ to \in Nat /\ "p" \notin {"section", "a"}
    BY DEF Element, Boundaries!Tag, Boundaries!Shown, Boundaries!Spaces, Boundaries!Word
  <2>2. Boundaries!Text(to) \in Sendable
    BY <2>1, SendableForms
  <2>3. <<Boundaries!Text(to)>> \in Seq(Sendable)
    BY <2>2
  <2>4. QED
    BY <1>1, <1>2, <2>3, SizedEmits
<1>3. CASE boundary' = boundary
  BY <1>1, <1>3, SizedStands
<1>4. QED
  BY <1>2, <1>3 DEF Boundaries!Data, Boundaries!EmitNothing

LEMMA SizedFinish ==
    ASSUME AgreeInv, SizedInv, Boundaries!Finish
    PROVE  SizedInv'
<1>1. CASE Boundaries!Refuse
  BY <1>1, SizedStands DEF Boundaries!Refuse
<1>2. CASE ~Boundaries!Refuse
  <2> DEFINE section == IF wrapped THEN <<Boundaries!Close("section")>> ELSE <<>>
             pieces == Boundaries!Closing(1) \o section
             parsed == Boundaries!Parsed(pieces)
  <2>1. drawn' = drawn /\ (boundary' = parsed \/ boundary' = Boundaries!Complete(parsed))
    BY <1>2 DEF Boundaries!Finish
  <2>2. opened \in Seq(Opened) /\ Sized(boundary)
    BY DEF AgreeInv, ReadingTypes, SizedInv
  <2>3. 1 \in 1 .. Len(opened) + 1
    BY <2>2
  <2>4. Boundaries!Closing(1) \in Seq(Sendable)
    BY <2>2, <2>3, ClosingSendable
  <2>5. "section" \in Element /\ 1 \in Nat /\ 1 \in Boundaries!Topics
    BY DEF Element, Boundaries!Topics
  <2>6. Boundaries!Close("section") \in Sendable
    BY <2>5, SendableForms
  <2>7. section \in Seq(Sendable)
    BY <2>6
  <2> HIDE DEF section
  <2>8. pieces \in Seq(Sendable)
    BY <2>4, <2>7
  <2> HIDE DEF pieces
  <2>9. Sized(parsed) /\ Sized(Boundaries!Complete(parsed))
    BY <2>2, <2>8, SizedParsed
  <2> HIDE DEF parsed
  <2>10. Sized(boundary')
    BY <2>1, <2>9
  <2>11. QED
    BY <2>1, <2>10 DEF SizedInv, Sized, Parser
<1>3. QED
  BY <1>1, <1>2

LEMMA SizedStep == AgreeInv /\ SizedInv /\ [Boundaries!Next]_html => SizedInv'
<1> SUFFICES ASSUME AgreeInv, SizedInv, [Boundaries!Next]_html PROVE SizedInv'
  OBVIOUS
<1>1. CASE UNCHANGED html
  BY <1>1, SizedStands DEF html
<1>2. ASSUME NEW tag \in Boundaries!Tag, NEW slash \in BOOLEAN, Boundaries!Start(tag, slash)
      PROVE  SizedInv'
  <2>1. CASE Boundaries!Hide(tag, slash) \/ Boundaries!Skip(tag)
    <3>1. UNCHANGED <<boundary, drawn>>
      BY <2>1 DEF Boundaries!Hide, Boundaries!Skip, Boundaries!Refuse, Boundaries!Go, Boundaries!EmitNothing
    <3>2. QED
      BY <3>1, SizedStands
  <2>2. CASE Boundaries!Show(tag, slash)
    BY <2>2, SizedShow
  <2>3. QED
    BY <1>2, <2>1, <2>2 DEF Boundaries!Start
<1>3. ASSUME NEW tag \in Boundaries!Tag \cup {"a"}, Boundaries!End(tag)
      PROVE  SizedInv'
  <2>1. CASE Boundaries!CloseHidden(tag)
    <3>1. UNCHANGED <<boundary, drawn>>
      BY <2>1 DEF Boundaries!CloseHidden, Boundaries!Refuse, Boundaries!Go, Boundaries!EmitNothing
    <3>2. QED
      BY <3>1, SizedStands
  <2>2. CASE Boundaries!CloseShown(tag)
    BY <2>2, SizedClose
  <2>3. QED
    BY <1>3, <2>1, <2>2 DEF Boundaries!End
<1>4. ASSUME NEW known_ \in BOOLEAN, NEW to \in Boundaries!Topics, Boundaries!Link(known_, to)
      PROVE  SizedInv'
  BY <1>4, SizedLink
<1>5. ASSUME NEW image \in Boundaries!Picture, Boundaries!DrawImage(image)
      PROVE  SizedInv'
  BY <1>5, SizedDraw
<1>6. ASSUME NEW to \in {Boundaries!Spaces, Boundaries!Word}, Boundaries!Data(to)
      PROVE  SizedInv'
  BY <1>6, SizedData
<1>7. CASE Boundaries!Finish
  BY <1>7, SizedFinish
<1>8. QED
  BY <1>1, <1>2, <1>3, <1>4, <1>5, <1>6, <1>7 DEF Boundaries!Next

LEMMA HtmlTyped ==
    ASSUME AgreeInv, SizedInv, WordInv
    PROVE  Boundaries!TypeOK
<1>1. /\ markup \in DOMAIN Boundaries!Hides /\ chapter \in Boundaries!Topics
      /\ said \in BOOLEAN /\ wrapped \in BOOLEAN /\ stage \in {"reading", "refused", "done"}
  BY DEF AgreeInv, ReadingTypes, Boundaries!Hides
<1>2. /\ hidden \in Seq(Boundaries!Hides[markup] \ Boundaries!Void[markup])
      /\ covers \in Seq(Boundaries!Hides[markup] \ Boundaries!HtmlVoid) /\ astray \in BOOLEAN
  BY DEF WordInv, WordTypes
<1>3. \A i \in DOMAIN opened : opened[i].tag \in Boundaries!Shown \cup {"a"} /\ opened[i].out \in BOOLEAN
  <2>1. \A i \in DOMAIN opened : opened[i] \in Opened
    BY DEF AgreeInv, ReadingTypes
  <2>2. QED
    BY <2>1 DEF Opened
<1>4. drawn \subseteq Boundaries!Picture /\ Boundaries!Cardinality(drawn) <= MaxPictures
  BY DEF SizedInv, Boundaries!Cardinality, Cardinality
<1>5. /\ boundary.topics \subseteq Boundaries!Topics /\ boundary.links \subseteq Boundaries!Topics
      /\ boundary.pictures \in 0 .. (MaxPictures + 1) /\ Len(boundary.stack) <= Depth + 1
      /\ boundary.why \in {"none", "element", "depth", "unbalanced", "pictures", "links", "blank"}
  BY ReaderAssumption DEF SizedInv, Sized, Parser
<1>6. QED
  BY <1>1, <1>2, <1>3, <1>4, <1>5 DEF Boundaries!TypeOK

\* The readers' state keeps its types and its bounds: the second parser holds no
\* more open elements and no more pictures than its limits and the one that
\* breaks them, the reader draws no more pictures than it may, and what hides
\* text in a browser is what the reader of the same kind of page hides.
THEOREM HtmlTypesHold == Spec => [](focus = "html" => Boundaries!TypeOK)
<1> DEFINE Inv == focus = "html" => AgreeInv /\ SizedInv /\ WordInv
<1>1. Init => Inv
  BY AgreeInit, SizedInit, WordInit DEF Init
<1>2. Inv /\ [Next]_vars => Inv'
  BY HtmlFocus, AgreeStep, SizedStep, WordStep
<1>3. Inv => (focus = "html" => Boundaries!TypeOK)
  BY HtmlTyped
<1>4. QED
  BY <1>1, <1>2, <1>3, PTL DEF Spec

-----------------------------------------------------------------------------
(* One job of one tool.                                                    *)

\* The types the argument reads.
RequestTypes ==
    /\ tool \in Tool
    /\ source.size \in Nat /\ source.made \in BOOLEAN
    /\ fate \in {"live", "expired", "gone"} /\ narrowed \in BOOLEAN
    /\ job \in [by : Principal \cup {"none"}, inputs : Nat, retries : Nat,
                status : {"none", "queued", "succeeded", "failed", "cancelled"},
                why : {"none", "unroutable", "missing", "denied", "signature", "engine"}]
    /\ job.status = "none" => job = NoJob

\* An upload was recognised under the settings of the API.
UploadInv == source # NoSource /\ ~source.made => Recognised(apiFlags, source.suffix, source.size)

\* What the route admitted is still as it was, unless the file's time ran out;
\* a job that reads a file belongs to its owner or to the bootstrap key.
AdmittedInv ==
    job # NoJob =>
        /\ Route[tool].flags \subseteq apiFlags
        /\ job.inputs \in Route[tool].least .. Route[tool].most
        /\ job.inputs > 0 =>
             /\ source # NoSource
             /\ Owned(job.by) \/ job.by = "root"
             /\ fate = "live" => Admits(Route[tool], source)

RequestInv == RequestTypes /\ UploadInv /\ AdmittedInv /\ RefusalExplained

\* TablesAssumption for the tool of the job.
LEMMA TablesFit ==
    ASSUME tool \in Tool
    PROVE  /\ Route[tool].least \in Nat /\ Route[tool].most \in Nat
           /\ Route[tool].low \in Nat /\ Route[tool].high \in Nat
           /\ Dispatch[tool].least \in Nat /\ Dispatch[tool].most \in Nat
           /\ Dispatch[tool].low \in Nat /\ Dispatch[tool].high \in Nat
           /\ Fits(Route[tool], Dispatch[tool])
           /\ QueueClass[tool].flags \subseteq Route[tool].flags
           /\ tool \notin Unscoped \cup Secret =>
                /\ tool \in DOMAIN RetryRule /\ Route[tool].least > 0
                /\ RetryRule[tool].scope = Route[tool].scope
                /\ Route[tool].flags \subseteq RetryRule[tool].flags
BY TablesAssumption

LEMMA RequestStart == RequestInit => RequestInv
<1> SUFFICES ASSUME RequestInit PROVE RequestInv
  OBVIOUS
<1>1. RequestTypes
  BY DEF RequestInit, RequestTypes, NoSource, NoJob, Principal
<1>2. UploadInv /\ AdmittedInv /\ RefusalExplained
  BY DEF RequestInit, UploadInv, AdmittedInv, RefusalExplained, NoJob
<1>3. QED
  BY <1>1, <1>2 DEF RequestInv

\* A file appears once, before the job.
LEMMA FileStep ==
    ASSUME RequestInv, NEW suffix, NEW length \in SizeTried,
           UploadFile(suffix, length) \/ ProduceFile(suffix, length)
    PROVE  RequestInv'
<1>1. length \in Nat
  BY DEF SizeTried, Under16, Longer
<1>2. /\ job = NoJob /\ UNCHANGED <<tool, apiFlags, workerFlags, fate, narrowed, job>>
      /\ source'.size = length /\ source'.suffix = suffix /\ source'.made \in BOOLEAN
      /\ ~source'.made => Recognised(apiFlags, suffix, length)
  <2>1. CASE UploadFile(suffix, length)
    BY <2>1 DEF UploadFile
  <2>2. CASE ProduceFile(suffix, length)
    BY <2>2 DEF ProduceFile
  <2>3. QED
    BY <2>1, <2>2
<1>3. RequestTypes'
  BY <1>1, <1>2 DEF RequestInv, RequestTypes
<1>4. UploadInv'
  BY <1>2 DEF UploadInv, Recognised
<1>5. AdmittedInv'
  BY <1>2 DEF AdmittedInv
<1>6. RefusalExplained'
  BY <1>2 DEF RefusalExplained, NoJob
<1>7. QED
  BY <1>3, <1>4, <1>5, <1>6 DEF RequestInv

\* Its time runs out, it is erased, the owner loses a scope: nothing that was
\* explained is unexplained by it.
LEMMA FateStep ==
    ASSUME RequestInv, Expire \/ Erase \/ Narrow
    PROVE  RequestInv'
<1>1. /\ UNCHANGED <<tool, apiFlags, workerFlags, source, job>>
      /\ fate' \in {"live", "expired", "gone"} /\ narrowed' \in BOOLEAN
      /\ fate' = "live" => fate = "live"
  BY DEF Expire, Erase, Narrow, RequestInv, RequestTypes
<1>2. RequestTypes'
  BY <1>1 DEF RequestInv, RequestTypes
<1>3. UploadInv' /\ AdmittedInv'
  BY <1>1 DEF RequestInv, UploadInv, AdmittedInv, Recognised, Owned, Admits
<1>4. RefusalExplained'
  BY <1>1 DEF RequestInv, RefusalExplained
<1>5. QED
  BY <1>2, <1>3, <1>4 DEF RequestInv

\* The queue has a class for whatever a route admits.
LEMMA QueuedIsRouted ==
    ASSUME RequestInv, NEW p \in Principal, NEW inputs \in Nat, NEW retries \in Nat, Queued(p, inputs, retries),
           Route[tool].flags \subseteq apiFlags
    PROVE  job' = [by |-> p, inputs |-> inputs, status |-> "queued", why |-> "none", retries |-> retries]
BY TablesFit DEF Queued, RequestInv, RequestTypes

LEMMA SubmitStep ==
    ASSUME RequestInv, NEW p \in Principal, NEW inputs \in Nat, Submit(p, inputs)
    PROVE  RequestInv'
<1>1. /\ UNCHANGED <<tool, apiFlags, workerFlags, source, fate, narrowed>>
      /\ Route[tool].flags \subseteq apiFlags /\ inputs \in Route[tool].least .. Route[tool].most
      /\ inputs > 0 => source # NoSource /\ Owned(p) /\ Admits(Route[tool], source)
  BY DEF Submit
<1>2. job' = [by |-> p, inputs |-> inputs, status |-> "queued", why |-> "none", retries |-> 0]
  BY <1>1, QueuedIsRouted DEF Submit
<1>3. RequestTypes'
  BY <1>1, <1>2 DEF RequestInv, RequestTypes
<1>4. UploadInv'
  BY <1>1 DEF RequestInv, UploadInv, Recognised
<1>5. AdmittedInv'
  BY <1>1, <1>2 DEF AdmittedInv, Owned, Admits
<1>6. RefusalExplained'
  BY <1>2 DEF RefusalExplained
<1>7. QED
  BY <1>3, <1>4, <1>5, <1>6 DEF RequestInv

LEMMA RetryStep ==
    ASSUME RequestInv, NEW p \in Principal, Retry(p)
    PROVE  RequestInv'
<1>1. /\ UNCHANGED <<tool, apiFlags, workerFlags, source, fate, narrowed>>
      /\ job # NoJob /\ (p = job.by \/ p = "root")
      /\ job.inputs \in Nat /\ job.retries + 1 \in Nat
      /\ Queued(p, job.inputs, job.retries + 1)
  BY DEF Retry, NoJob, RequestInv, RequestTypes
<1>2. job' = [by |-> p, inputs |-> job.inputs, status |-> "queued", why |-> "none",
              retries |-> job.retries + 1]
  BY <1>1, QueuedIsRouted DEF RequestInv, AdmittedInv
<1>3. RequestTypes'
  BY <1>1, <1>2 DEF RequestInv, RequestTypes
<1>4. UploadInv'
  BY <1>1 DEF RequestInv, UploadInv, Recognised
<1>5. AdmittedInv'
  BY <1>1, <1>2 DEF RequestInv, AdmittedInv, Owned, Admits
<1>6. RefusalExplained'
  BY <1>2 DEF RefusalExplained
<1>7. QED
  BY <1>3, <1>4, <1>5, <1>6 DEF RequestInv

\* The worker's look at a job the route admitted.
LEMMA VerdictExplained ==
    ASSUME RequestInv, job # NoJob, Verdict # "none", fate = "live", apiFlags = workerFlags, job.by # "root"
    PROVE  source.made /\ Verdict = "signature"
<1> DEFINE route == Route[tool]
           rule  == Dispatch[tool]
<1>1. /\ route.least \in Nat /\ route.most \in Nat /\ route.low \in Nat /\ route.high \in Nat
      /\ rule.least \in Nat /\ rule.most \in Nat /\ rule.low \in Nat /\ rule.high \in Nat
      /\ Fits(route, rule)
  BY TablesFit DEF RequestInv, RequestTypes
<1>2. /\ route.flags \subseteq apiFlags /\ job.inputs \in Nat /\ source.size \in Nat
      /\ route.least <= job.inputs /\ job.inputs <= route.most
      /\ job.inputs > 0 => source # NoSource /\ job.by = "owner" /\ Admits(route, source)
  BY <1>1 DEF RequestInv, RequestTypes, AdmittedInv, Owned
<1>3. Permits(rule)
  <2>1. /\ rule.flags \subseteq workerFlags
        /\ rule.least <= job.inputs /\ job.inputs <= rule.most
        /\ rule.params \subseteq route.params /\ (rule.exact => rule.params = route.params)
    BY <1>1, <1>2 DEF Fits
  <2>2. rule.strict => job.by = "owner" /\ fate = "live"
    BY <1>1, <1>2 DEF Fits
  <2>3. job.inputs > 0 =>
          /\ rule.mimes = {} \/ source.mime \in rule.mimes
          /\ rule.names = {} \/ source.suffix \in rule.names
          /\ rule.low <= source.size /\ source.size <= rule.high
    BY <1>1, <1>2 DEF Fits, Admits
  <2>4. QED
    BY <2>1, <2>2, <2>3 DEF Permits
<1>4. Verdict = "signature" /\ rule.again /\ ~Recognised(workerFlags, source.suffix, source.size)
  BY <1>3 DEF Verdict
<1>5. source # NoSource
  BY <1>1, <1>2, <1>4 DEF Fits
<1>6. QED
  BY <1>4, <1>5 DEF RequestInv, RequestTypes, UploadInv

LEMMA WorkerStep ==
    ASSUME RequestInv, Cancel \/ Refuse \/ Convert \/ EngineFails
    PROVE  RequestInv'
<1>1. /\ UNCHANGED <<tool, apiFlags, workerFlags, source, fate, narrowed>>
      /\ job.status = "queued" /\ job # NoJob
      /\ job'.by = job.by /\ job'.inputs = job.inputs /\ job'.status # "none"
  <2>0. job.status = "queued" /\ UNCHANGED <<tool, apiFlags, workerFlags, source, fate, narrowed>>
    BY DEF Cancel, Refuse, Convert, EngineFails, Opens
  <2>1. job' = [job EXCEPT !.status = "cancelled"]
        \/ job' = [job EXCEPT !.status = "failed", !.why = Verdict]
        \/ job' = [job EXCEPT !.status = "succeeded", !.why = "none"]
        \/ job' = [job EXCEPT !.status = "failed", !.why = "engine"]
    BY DEF Cancel, Refuse, Convert, EngineFails, Opens
  <2>2. job # NoJob
    BY <2>0 DEF NoJob
  <2>3. job'.by = job.by /\ job'.inputs = job.inputs /\ job'.status # "none"
    BY <2>1 DEF RequestInv, RequestTypes
  <2>4. QED
    BY <2>0, <2>2, <2>3
<1>2. job'.status = "failed" /\ job'.why # "engine" => Verdict # "none" /\ job'.why = Verdict
  BY <1>1 DEF Cancel, Refuse, Convert, EngineFails, Opens, RequestInv, RequestTypes
<1>4. RequestTypes'
  <2>1. Verdict \in {"none", "missing", "denied", "signature"}
    BY DEF Verdict
  <2>2. QED
    BY <1>1, <2>1 DEF Cancel, Refuse, Convert, EngineFails, Opens, RequestInv, RequestTypes
<1>5. UploadInv'
  BY <1>1 DEF RequestInv, UploadInv, Recognised
<1>6. AdmittedInv'
  BY <1>1 DEF RequestInv, AdmittedInv, Owned, Admits
<1>7. RefusalExplained'
  BY <1>1, <1>2, VerdictExplained DEF RefusalExplained, RequestInv, RequestTypes
<1>8. QED
  BY <1>4, <1>5, <1>6, <1>7 DEF RequestInv

LEMMA RequestStep == RequestInv /\ [RequestNext]_toolVars => RequestInv'
<1> SUFFICES ASSUME RequestInv, [RequestNext]_toolVars PROVE RequestInv'
  OBVIOUS
<1>1. CASE UNCHANGED toolVars
  BY <1>1 DEF toolVars, RequestInv, RequestTypes, UploadInv, AdmittedInv, RefusalExplained,
              Recognised, Owned, Admits
<1>2. ASSUME NEW suffix \in SuffixTried, NEW length \in SizeTried,
             UploadFile(suffix, length) \/ ProduceFile(suffix, length)
      PROVE  RequestInv'
  BY <1>2, FileStep
<1>3. CASE Expire \/ Erase \/ Narrow
  BY <1>3, FateStep
<1>4. CASE Cancel \/ Refuse \/ Convert \/ EngineFails
  BY <1>4, WorkerStep
<1>5. ASSUME NEW p \in Principal, NEW inputs \in {0, 1, 2, 50, 51, 100}, Submit(p, inputs)
      PROVE  RequestInv'
  <2>1. inputs \in Nat
    OBVIOUS
  <2>2. QED
    BY <1>5, <2>1, SubmitStep
<1>6. ASSUME NEW p \in Principal, Retry(p) PROVE RequestInv'
  BY <1>6, RetryStep
<1>7. QED
  BY <1>1, <1>2, <1>3, <1>4, <1>5, <1>6 DEF RequestNext

LEMMA RequestFocus == [Next]_vars => /\ focus = "requests" => RequestNext \/ UNCHANGED toolVars
                                     /\ focus # "requests" => UNCHANGED toolVars
                                     /\ UNCHANGED focus
BY DEF Next, vars

\* A MIME type is named for a suffix.
LEMMA MimeKnown == \A suffix \in DOMAIN Upload : MimeOf(suffix) \in DOMAIN Upload
BY SuffixAssumption DEF MimeOf

\* Every handler keeps the types.
LEMMA RequestTyped ==
    ASSUME RequestTypeOK, RequestNext \/ UNCHANGED toolVars
    PROVE  RequestTypeOK'
<1>1. CASE UNCHANGED toolVars
  BY <1>1 DEF toolVars, RequestTypeOK, Relevant
<1>2. ASSUME NEW suffix, NEW length \in SizeTried,
             UploadFile(suffix, length) \/ ProduceFile(suffix, length)
      PROVE  RequestTypeOK'
  <2>1. length \in Under16..Longer
    BY DEF SizeTried
  <2>2. suffix \in DOMAIN Upload
    BY <1>2, SuffixAssumption DEF UploadFile, ProduceFile, Recognised
  <2>3. MimeOf(suffix) \in DOMAIN Upload
    BY <2>2, MimeKnown
  <2>4. /\ UNCHANGED <<tool, apiFlags, workerFlags, fate, narrowed, job>>
        /\ \E mime \in {MimeOf(suffix), "text"}, made \in BOOLEAN :
              source' = [suffix |-> suffix, mime |-> mime, size |-> length, made |-> made]
    BY <1>2 DEF UploadFile, ProduceFile
  <2>5. source' \in [suffix : DOMAIN Upload \cup {"none"}, mime : DOMAIN Upload \cup {"none", "text"},
                     size : Under16..Longer, made : BOOLEAN]
    BY <2>1, <2>2, <2>3, <2>4
  <2>6. QED
    BY <2>4, <2>5 DEF RequestTypeOK, Relevant
<1>3. CASE Expire \/ Erase \/ Narrow
  <2>1. /\ UNCHANGED <<tool, apiFlags, workerFlags, source, job>>
        /\ fate' \in {"live", "expired", "gone"} /\ narrowed' \in BOOLEAN
    BY <1>3 DEF Expire, Erase, Narrow, RequestTypeOK
  <2>2. QED
    BY <2>1 DEF RequestTypeOK, Relevant
<1> DEFINE Jobs == [by : Principal \cup {"none"}, inputs : 0..100,
                    status : {"none", "queued", "succeeded", "failed", "cancelled"},
                    why : {"none", "unroutable", "missing", "denied", "signature", "engine"},
                    retries : 0..MaxRetries]
<1>4. ASSUME UNCHANGED <<tool, apiFlags, workerFlags, source, fate, narrowed>>, job' \in Jobs
      PROVE  RequestTypeOK'
  BY <1>4 DEF RequestTypeOK, Relevant
<1>5. CASE Cancel \/ Refuse \/ Convert \/ EngineFails
  <2>1. Verdict \in {"none", "missing", "denied", "signature"}
    BY DEF Verdict
  <2>2. job \in Jobs
    BY DEF RequestTypeOK
  <2> HIDE DEF Jobs
  <2>3. \A status \in {"succeeded", "failed", "cancelled"} :
            /\ [job EXCEPT !.status = status] \in Jobs
            /\ \A why \in {"none", "engine", "missing", "denied", "signature"} :
                  [job EXCEPT !.status = status, !.why = why] \in Jobs
    BY <2>2 DEF Jobs
  <2>4. /\ UNCHANGED <<tool, apiFlags, workerFlags, source, fate, narrowed>>
        /\ \/ job' = [job EXCEPT !.status = "cancelled"]
           \/ \E status \in {"succeeded", "failed"}, why \in {"none", "engine", Verdict} :
                 job' = [job EXCEPT !.status = status, !.why = why]
    BY <1>5 DEF Cancel, Refuse, Convert, EngineFails, Opens
  <2>5. job' \in Jobs
    BY <2>1, <2>3, <2>4
  <2>6. QED
    BY <1>4, <2>4, <2>5
<1>6. ASSUME NEW p \in Principal, NEW inputs \in 0..100, NEW retries \in 0..MaxRetries,
             Queued(p, inputs, retries)
      PROVE  job' \in Jobs
  BY <1>6 DEF Queued
<1>7. ASSUME NEW p \in Principal, NEW inputs \in {0, 1, 2, 50, 51, 100}, Submit(p, inputs)
      PROVE  RequestTypeOK'
  <2>1. inputs \in 0..100 /\ 0 \in 0..MaxRetries
    BY BoundAssumption
  <2>2. Queued(p, inputs, 0) /\ UNCHANGED <<tool, apiFlags, workerFlags, source, fate, narrowed>>
    BY <1>7 DEF Submit
  <2>3. QED
    BY <1>4, <1>6, <2>1, <2>2
<1>8. ASSUME NEW p \in Principal, Retry(p)
      PROVE  RequestTypeOK'
  <2>1. job.inputs \in 0..100 /\ job.retries + 1 \in 0..MaxRetries
    BY <1>8, BoundAssumption DEF Retry, RequestTypeOK
  <2>2. /\ Queued(p, job.inputs, job.retries + 1)
        /\ UNCHANGED <<tool, apiFlags, workerFlags, source, fate, narrowed>>
    BY <1>8 DEF Retry
  <2>3. QED
    BY <1>4, <1>6, <2>1, <2>2
<1>9. QED
  BY <1>1, <1>2, <1>3, <1>5, <1>7, <1>8 DEF RequestNext

\* The variables of a tool request have their types, for every tool there is: a
\* product has a suffix that an upload may have, and no job has more retries than
\* it is allowed (the routers, _create_job, process_job).
THEOREM RequestTypesHold == Spec => [](focus = "requests" => RequestTypeOK)
<1> DEFINE Inv == focus = "requests" => RequestTypeOK
<1>1. ASSUME RequestInit PROVE RequestTypeOK
  <2>1. tool \in Tool /\ apiFlags \in SUBSET Relevant(tool) /\ workerFlags \in SUBSET Relevant(tool)
        /\ source = NoSource /\ fate = "live" /\ narrowed \in BOOLEAN /\ job = NoJob
    BY <1>1 DEF RequestInit
  <2>2. source \in [suffix : DOMAIN Upload \cup {"none"}, mime : DOMAIN Upload \cup {"none", "text"},
                   size : Under16..Longer, made : BOOLEAN]
    BY <2>1 DEF NoSource, Under16, Longer
  <2>3. job \in [by : Principal \cup {"none"}, inputs : 0..100,
                status : {"none", "queued", "succeeded", "failed", "cancelled"},
                why : {"none", "unroutable", "missing", "denied", "signature", "engine"},
                retries : 0..MaxRetries]
    BY <2>1, BoundAssumption DEF NoJob
  <2>4. QED
    BY <2>1, <2>2, <2>3 DEF RequestTypeOK
<1>2. Init => Inv
  BY <1>1 DEF Init
<1>3. Inv /\ [Next]_vars => Inv'
  BY RequestFocus, RequestTyped
<1>4. QED
  BY <1>2, <1>3, PTL DEF Spec

\* For any number of retries, the worker turns a job that the route admitted
\* away only for a reason (the routers and _create_job against process_job).
THEOREM RefusalIsExplained == Spec => []RefusalExplained
<1> DEFINE Inv == RefusalExplained /\ (focus = "requests" => RequestInv)
<1>1. Init => Inv
  <2>1. RequestOff => RefusalExplained
    BY DEF RequestOff, NoJob, RefusalExplained
  <2>2. RequestInit => RequestInv
    BY RequestStart
  <2>3. QED
    BY <2>1, <2>2 DEF Init, RequestInv
<1>2. Inv /\ [Next]_vars => Inv'
  <2>1. UNCHANGED toolVars /\ RefusalExplained => RefusalExplained'
    BY DEF toolVars, RefusalExplained
  <2>2. QED
    BY <2>1, RequestFocus, RequestStep DEF RequestInv
<1>3. QED
  BY <1>1, <1>2, PTL DEF Spec

\* The engine runs on a file only if the job's principal may read it, whatever
\* was submitted, retried, expired or erased in between (process_job).
THEOREM FilesAreTheOwners == Spec => OwnLiveFile
<1> DEFINE Inv == focus = "requests" => RequestInv
           Reads == job.status = "queued" /\ job'.status \in {"succeeded", "failed"}
                    /\ job'.why \in {"none", "engine"} /\ job.inputs > 0
           MayRead == /\ job.by = "owner" \/ (job.by = "root" /\ tool \notin Strict)
                      /\ tool \in Strict => fate = "live"
<1>1. Init => Inv
  BY RequestStart DEF Init
<1>2. Inv /\ [Next]_vars => Inv'
  BY RequestFocus, RequestStep
<1>3. Inv /\ [Next]_vars => [Reads => MayRead]_toolVars
  <2> SUFFICES ASSUME RequestInv, RequestNext, Reads PROVE MayRead
    BY RequestFocus DEF toolVars
  <2>1. Convert \/ EngineFails
    <3>1. ~\E suffix \in SuffixTried, length \in SizeTried : UploadFile(suffix, length) \/ ProduceFile(suffix, length)
      BY DEF UploadFile, ProduceFile, NoJob
    <3>2. ~(Expire \/ Erase \/ Narrow \/ Cancel)
      BY DEF Expire, Erase, Narrow, Cancel, RequestInv, RequestTypes
    <3>3. ~Refuse
      <4>1. Verdict \notin {"none"} => Verdict \in {"missing", "denied", "signature"}
        BY DEF Verdict
      <4>2. QED
        BY <4>1 DEF Refuse, RequestInv, RequestTypes
    <3>4. ~\E p \in Principal, inputs \in {0, 1, 2, 50, 51, 100} : Submit(p, inputs)
      BY DEF Submit, NoJob
    <3>5. ~\E p \in Principal : Retry(p)
      BY DEF Retry
    <3>6. QED
      BY <3>1, <3>2, <3>3, <3>4, <3>5 DEF RequestNext
  <2>2. Verdict = "none"
    BY <2>1 DEF Convert, EngineFails, Opens
  <2>3. Permits(Dispatch[tool])
    BY <2>2 DEF Verdict
  <2>4. job.by \in {"owner", "root"} /\ job.inputs \in Nat
    BY DEF RequestInv, RequestTypes, AdmittedInv, Owned, NoJob
  <2>5. ASSUME tool \in Strict PROVE job.by = "owner" /\ fate = "live"
    BY <2>3, <2>4, <2>5, TablesFit DEF Permits, Fits, Strict, RequestInv, RequestTypes
  <2>6. QED
    BY <2>4, <2>5
<1>4. QED
  BY <1>1, <1>2, <1>3, PTL DEF Spec, OwnLiveFile

\* For any number of retries, one who could no longer submit a tool cannot run
\* it by retrying, except for the tools in Unscoped (retry_job).
THEOREM NoWayAround == Spec => RetryIsNoDetour
<1> DEFINE Inv == focus = "requests" => RequestInv
           Retried == job'.retries > job.retries /\ tool \notin Unscoped
           Could   == (job'.by = "root" \/ ~narrowed) /\ Route[tool].flags \subseteq apiFlags
<1>1. Init => Inv
  BY RequestStart DEF Init
<1>2. Inv /\ [Next]_vars => Inv'
  BY RequestFocus, RequestStep
<1>3. Inv /\ [Next]_vars => [Retried => Could]_toolVars
  <2> SUFFICES ASSUME RequestInv, RequestNext, Retried PROVE Could
    BY RequestFocus DEF toolVars
  <2>1. PICK p \in Principal : Retry(p)
    <3>1. job.retries \in Nat
      BY DEF RequestInv, RequestTypes
    <3>2. ~\E suffix \in SuffixTried, length \in SizeTried : UploadFile(suffix, length) \/ ProduceFile(suffix, length)
      BY <3>1 DEF UploadFile, ProduceFile
    <3>3. ~(Expire \/ Erase \/ Narrow)
      BY <3>1 DEF Expire, Erase, Narrow
    <3>4. ~(Cancel \/ Refuse \/ Convert \/ EngineFails)
      <4>1. Cancel \/ Refuse \/ Convert \/ EngineFails =>
                \/ job' = [job EXCEPT !.status = "cancelled"]
                \/ job' = [job EXCEPT !.status = "failed", !.why = Verdict]
                \/ job' = [job EXCEPT !.status = "succeeded", !.why = "none"]
                \/ job' = [job EXCEPT !.status = "failed", !.why = "engine"]
        BY DEF Cancel, Refuse, Convert, EngineFails, Opens
      <4>2. Cancel \/ Refuse \/ Convert \/ EngineFails => job'.retries = job.retries
        BY <4>1 DEF RequestInv, RequestTypes
      <4>3. QED
        BY <3>1, <4>2
    <3>5. ~\E q \in Principal, inputs \in {0, 1, 2, 50, 51, 100} : Submit(q, inputs)
      <4>1. ASSUME NEW q \in Principal, NEW inputs \in {0, 1, 2, 50, 51, 100}, Submit(q, inputs)
            PROVE  job = NoJob /\ job'.retries = 0
        BY <4>1 DEF Submit, Queued
      <4>2. QED
        BY <3>1, <4>1 DEF NoJob
    <3>6. QED
      BY <3>2, <3>3, <3>4, <3>5 DEF RequestNext
  <2>2. /\ p = job.by \/ p = "root"
        /\ tool \notin Secret /\ Asked(p) /\ job # NoJob
        /\ job'.by = p
    BY <2>1 DEF Retry, Queued, NoJob
  <2>3. /\ tool \in DOMAIN RetryRule /\ Route[tool].least \in Nat /\ Route[tool].least > 0
        /\ RetryRule[tool].scope = Route[tool].scope
        /\ Route[tool].flags \subseteq RetryRule[tool].flags
    BY <2>2, TablesFit DEF RequestInv, RequestTypes
  <2>4. Route[tool].flags \subseteq apiFlags /\ (p # "owner" \/ ~narrowed)
    BY <2>2, <2>3 DEF Asked, Holds
  <2>5. job.by \in {"owner", "root"}
    BY <2>2, <2>3 DEF RequestInv, RequestTypes, AdmittedInv, Owned
  <2>6. QED
    BY <2>2, <2>4, <2>5
<1>4. QED
  BY <1>1, <1>2, <1>3, PTL DEF Spec, RetryIsNoDetour

-----------------------------------------------------------------------------
(* The parts together.                                                      *)

\* Whichever part runs, its state has its types and its bounds, for any sets
\* of requests, jobs, attempts and people and for any limits of the policies,
\* of the parsers and of the clocks.
THEOREM ServiceTypesHold == Spec => []TypeOK
<1> DEFINE Typed == /\ focus = "handoff" => Handoff!TypeOK
                    /\ focus = "quota" => Quota!TypeOK
                    /\ focus = "rate" => Rate!TypeOK
                    /\ focus = "requests" => RequestTypeOK
                    /\ focus = "conversion" => Stages!TypeOK
                    /\ focus = "html" => Boundaries!TypeOK
                    /\ focus = "sidecar" => Gate!TypeOK
                    /\ focus = "views" => Views!TypeOK
                    /\ focus = "archive" => Archive!TypeOK
                    /\ focus = "sessions" => SignIn!TypeOK
<1>1. Typed => TypeOK
  BY DEF TypeOK
<1>2. QED
  BY <1>1, HandoffTypesHold, QuotaTypesHold, RateTypesHold, RequestTypesHold, StageTypesHold,
     HtmlTypesHold, GateTypesHold, ViewsTypesHold, ArchiveTypesHold, SessionTypesHold, PTL
=============================================================================
