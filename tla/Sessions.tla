------------------------------- MODULE Sessions -------------------------------
(* Who a person is to the API.  A sign-in turns the claims of an identity
   provider into a role and an owner name (identity_from_claims); the session
   cookie carries claims, name and role, signed, and nothing is kept of it on
   the server; every later request works out role and name again from the
   cookie (decode_session_token).  Between the two the directory changes, and
   the API restarts with other settings.  An OIDC sign-in also leaves a key in
   Valkey that its callback reads and then deletes. *)
EXTENDS Naturals, FiniteSets

CONSTANTS
    Person,                \* the people an identity provider knows
    SessionTtl, StateTtl,  \* session_ttl_minutes, oidc_state_ttl_seconds, in ticks
    LastTick, MaxEvents    \* bounds: time; restarts, changes in the directory, codes

VARIABLES
    settings,              \* the settings the API started with
    directory,             \* [Person -> what the provider says of them]
    held,                  \* history: [Person -> [Group -> when they last had it]]
    now, events,
    cookie,                \* the session cookie of a browser, or NoCookie
    pending,               \* when the key of the login expires, 0 if there is none
    codes, redeemed,       \* [code -> who authorized the login], codes exchanged
    callback,              \* [Callback -> where it is, the code it carries]
    signedIn, crossed      \* history: sessions of the login; two callbacks overlapped

sessionVars == <<settings, directory, held, now, events, cookie, pending, codes, redeemed,
                 callback, signedIn, crossed>>

Group    == {"staff", "heads"}
Wide     == [staff |-> "operator", heads |-> "admin"]
Narrow   == [staff |-> "viewer", heads |-> "none"]
Code     == 1..2
Callback == 1..2
Nobody   == "nobody"

Refused  == [name |-> <<"nobody">>, role |-> "none"]
NoCookie == [source |-> "none", claims |-> [sub |-> Nobody], name |-> <<"nobody">>, role |-> "none", expires |-> 0]
Admitted(who) == who # Refused

(* validate_enabled_integrations.  admins is rcat_admin_emails: mailboxes of the
   school, each named for its first owner. *)
Settings ==
    {s \in [institutional : BOOLEAN, oidc : BOOLEAN, ldap : BOOLEAN, console : BOOLEAN, local : BOOLEAN,
            admins : SUBSET Person, roleOf : {Wide, Narrow}] :
        s.institutional => s.oidc /\ ~s.ldap}

(* mail: the mailbox that the provider attests, "outside" if it attests none of
   the school.  A mailbox can be given to somebody else; sub cannot. *)
Outside == "outside"
Claims  == [groups : SUBSET Group, mail : Person \cup {Outside}, display : {"d1", "d2"}]
ClaimsOf(p) == [sub |-> p, groups |-> directory[p].groups, mail |-> directory[p].mail,
                display |-> directory[p].display]
OfSchool(claims) == claims.mail # Outside

TypeOK ==
    /\ settings \in Settings /\ directory \in [Person -> Claims]
    /\ held \in [Person -> [Group -> 0..(LastTick + SessionTtl)]]
    /\ now \in SessionTtl..(LastTick + SessionTtl) /\ events \in 0..MaxEvents
    /\ cookie.source \in {"none", "oidc", "ldap", "local-admin", "web-console"}
    /\ pending \in 0..(LastTick + SessionTtl + StateTtl)
    /\ codes \in [Code -> Person \cup {Nobody}] /\ redeemed \subseteq Code
    /\ callback \in [Callback -> [at : {"idle", "found", "deleted", "over"}, code : Code \cup {0}]]
    /\ signedIn \in 0..Cardinality(Callback) /\ crossed \in BOOLEAN

(* Time starts late enough for "never held" to be long ago. *)
Init ==
    /\ settings \in {s \in Settings : s.roleOf = Wide /\ s.admins = {} /\ s.console /\ s.local /\ ~s.ldap}
    /\ directory = [p \in Person |-> [groups |-> {"staff"}, mail |-> p, display |-> "d1"]]
    /\ held = [p \in Person |-> [staff |-> SessionTtl, heads |-> 0]]
    /\ now = SessionTtl /\ events = 0 /\ cookie = NoCookie
    /\ pending = 0 /\ codes = [n \in Code |-> Nobody] /\ redeemed = {}
    /\ callback = [c \in Callback |-> [at |-> "idle", code |-> 0]]
    /\ signedIn = 0 /\ crossed = FALSE

Login == <<pending, codes, redeemed, callback, signedIn, crossed>>
World == <<settings, directory, held, now, events>>
Event == events < MaxEvents /\ events' = events + 1

(***************************************************************************)
(* Roles and names.                                                         *)
(***************************************************************************)
RoleForGroups(groups) ==
    LET roles == {settings.roleOf[g] : g \in groups} IN
    CASE "admin" \in roles    -> "admin"
      [] "operator" \in roles -> "operator"
      [] "viewer" \in roles   -> "viewer"
      [] OTHER                -> "none"

InstitutionalRole(claims) ==
    IF claims.mail \in settings.admins THEN "admin"
    ELSE IF RoleForGroups(claims.groups) = "none" THEN "operator" ELSE RoleForGroups(claims.groups)

HumanRole(claims) ==
    IF settings.institutional THEN InstitutionalRole(claims) ELSE RoleForGroups(claims.groups)

InstitutionalOwnerName(sub) == <<"oidc", sub>>
ConsoleEnabled == ~settings.institutional /\ settings.console /\ ~settings.oidc /\ ~settings.ldap

IdentityFromClaims(claims, source) ==
    IF settings.institutional /\ (source \notin {"oidc", "oidc-bearer"} \/ ~OfSchool(claims)) THEN Refused
    ELSE IF HumanRole(claims) = "none" THEN Refused
    ELSE [name |-> IF settings.institutional THEN InstitutionalOwnerName(claims.sub) ELSE <<"user", claims.display>>,
          role |-> HumanRole(claims)]

SignedRole(session) == session.role                  \* mutant: the role of the cookie is believed
SessionRole(session) ==
    IF session.source \in {"oidc", "ldap"} THEN HumanRole(session.claims) ELSE session.role

SessionOwner(session) ==
    IF settings.institutional THEN InstitutionalOwnerName(session.claims.sub) ELSE session.name

DecodeSession(session) ==
    IF \/ now >= session.expires
       \/ settings.institutional /\ (session.source # "oidc" \/ ~OfSchool(session.claims))
       \/ session.source = "web-console" /\ ~ConsoleEnabled
       \/ SessionRole(session) = "none"
    THEN Refused
    ELSE [name |-> SessionOwner(session), role |-> SessionRole(session)]

(* A provider's own token as bearer. *)
BearerIdentity(p) == IF settings.oidc THEN IdentityFromClaims(ClaimsOf(p), "oidc-bearer") ELSE Refused

(***************************************************************************)
(* Sign-ins.                                                                *)
(***************************************************************************)
SetSessionCookie(source, claims, who) ==
    cookie' = [source |-> source, claims |-> claims, name |-> who.name, role |-> who.role,
               expires |-> now + SessionTtl]

LdapLogin(p) ==
    LET who == IdentityFromClaims(ClaimsOf(p), "ldap") IN
    /\ settings.ldap /\ Admitted(who)
    /\ SetSessionCookie("ldap", ClaimsOf(p), who) /\ UNCHANGED <<World, Login>>

Unpersonal == [sub |-> Nobody, groups |-> {}, mail |-> Outside, display |-> "none"]

LocalLogin ==
    /\ settings.local /\ ~settings.institutional
    /\ SetSessionCookie("local-admin", Unpersonal, [name |-> <<"local-admin">>, role |-> "admin"])
    /\ UNCHANGED <<World, Login>>

WebConsoleSession ==
    /\ ConsoleEnabled
    /\ SetSessionCookie("web-console", Unpersonal, [name |-> <<"web-console">>, role |-> "operator"])
    /\ UNCHANGED <<World, Login>>

(* The server forgets nothing; the browser does. *)
Logout == cookie # NoCookie /\ cookie' = NoCookie /\ UNCHANGED <<World, Login>>

(* build_oidc_authorization_url.  Bound: one login. *)
OidcLogin ==
    /\ settings.oidc /\ pending = 0 /\ codes = [n \in Code |-> Nobody] /\ \A c \in Callback : callback[c].at = "idle"
    /\ pending' = now + StateTtl /\ UNCHANGED <<World, cookie, codes, redeemed, callback, signedIn, crossed>>

(* External: the provider hands a code to whoever follows the address of a
   login, each time it is followed. *)
Authorize(n, p) ==
    /\ pending # 0 /\ codes[n] = Nobody /\ \A m \in Code : m < n => codes[m] # Nobody
    /\ codes' = [codes EXCEPT ![n] = p] /\ Event
    /\ UNCHANGED <<settings, directory, held, now, cookie, pending, redeemed, callback, signedIn, crossed>>

Step(c, stage) == callback' = [callback EXCEPT ![c].at = stage]

CallbackRead(c, n) ==
    /\ settings.oidc /\ codes[n] # Nobody /\ callback[c].at = "idle"
    /\ callback' = [callback EXCEPT ![c] = [at |-> IF now < pending THEN "found" ELSE "over", code |-> n]]
    /\ crossed' = (crossed \/ \E b \in Callback : callback[b].at = "found")
    /\ UNCHANGED <<World, cookie, pending, codes, redeemed, signedIn>>

StateKept == pending                                 \* mutant: the key is not deleted
StateAfterRead == 0

(* The deletion may raise, having taken effect or not. *)
CallbackDelete(c) ==
    /\ callback[c].at = "found"
    /\ \/ pending' = StateAfterRead /\ Step(c, "deleted")
       \/ pending' \in {pending, 0} /\ Step(c, "over")
    /\ UNCHANGED <<World, cookie, codes, redeemed, signedIn, crossed>>

(* The exchange: the provider takes a code once; its answer may be lost. *)
CallbackFinish(c) ==
    LET n == callback[c].code
        who == IdentityFromClaims(ClaimsOf(codes[n]), "oidc") IN
    /\ callback[c].at = "deleted" /\ Step(c, "over")
    /\ \/ UNCHANGED redeemed /\ UNCHANGED <<cookie, signedIn>>
       \/ redeemed' = redeemed \cup {n} /\ UNCHANGED <<cookie, signedIn>>
       \/ /\ n \notin redeemed /\ redeemed' = redeemed \cup {n} /\ Admitted(who)
          /\ SetSessionCookie("oidc", ClaimsOf(codes[n]), who) /\ signedIn' = signedIn + 1
    /\ UNCHANGED <<World, pending, codes, crossed>>

(***************************************************************************)
(* The world.                                                               *)
(***************************************************************************)
Held(p, groups) == [g \in Group |-> IF g \in groups THEN now ELSE held[p][g]]

(* One thing changes; a mailbox has one owner at a time. *)
ChangePerson(p, claims) ==
    /\ OfSchool(claims) => \A q \in Person \ {p} : directory[q].mail # claims.mail
    /\ Event /\ Cardinality({f \in DOMAIN claims : claims[f] # directory[p][f]}) = 1
    /\ directory' = [directory EXCEPT ![p] = claims]
    /\ held' = [held EXCEPT ![p] = Held(p, claims.groups \cup directory[p].groups)]
    /\ UNCHANGED <<settings, now, cookie, Login>>

(* A restart with one setting changed ends the requests under way. *)
Reconfigure(s) ==
    /\ Event /\ Cardinality({f \in DOMAIN s : s[f] # settings[f]}) = 1 /\ settings' = s
    /\ callback' = [c \in Callback |->
                      IF callback[c].at = "idle" THEN callback[c] ELSE [callback[c] EXCEPT !.at = "over"]]
    /\ UNCHANGED <<directory, held, now, cookie, pending, codes, redeemed, signedIn, crossed>>

Tick ==
    /\ now < LastTick + SessionTtl /\ now' = now + 1
    /\ held' = [p \in Person |-> [g \in Group |-> IF g \in directory[p].groups THEN now' ELSE held[p][g]]]
    /\ UNCHANGED <<settings, directory, events, cookie, Login>>

Next ==
    \/ \E p \in Person : LdapLogin(p) \/ \E n \in Code : Authorize(n, p)
    \/ LocalLogin \/ WebConsoleSession \/ Logout \/ OidcLogin
    \/ \E c \in Callback :
          CallbackDelete(c) \/ CallbackFinish(c) \/ \E n \in Code : CallbackRead(c, n)
    \/ \E p \in Person, claims \in Claims : ChangePerson(p, claims)
    \/ \E s \in Settings : Reconfigure(s)
    \/ Tick

Spec == Init /\ [][Next]_sessionVars

(***************************************************************************)
(* Properties.                                                              *)
(***************************************************************************)
(* Whatever was changed in the settings since it was issued, an unexpired
   session of the provider gives what a sign-in with its claims would give now,
   no more and no less; a group its owner has lost counts for SessionTtl at the
   longest (that it counts at all is what NoStalePrivilege is about).  The
   console's session ends when people can sign in, the local administrator's
   with the institutional mode.  (That the provider itself has been switched
   off, or the administrator's password taken away, does not end a session.) *)
PrivilegeCurrent ==
    LET who == DecodeSession(cookie) IN
    /\ cookie.source \in {"oidc", "ldap"} /\ now < cookie.expires =>
          /\ who.role = IdentityFromClaims(cookie.claims, cookie.source).role
          /\ \A g \in cookie.claims.groups : now < held[cookie.claims.sub][g] + SessionTtl
    /\ cookie.source = "web-console" /\ Admitted(who) => who.role = "operator" /\ ~settings.oidc /\ ~settings.ldap
    /\ cookie.source = "local-admin" /\ Admitted(who) => ~settings.institutional

(* In institutional mode people own files under names of their own: a session,
   even one from before the mode was switched on, has the name its owner has
   with a provider's token, and nobody else has it, whatever they are called. *)
OwnerIsPerson ==
    settings.institutional =>
        \A p \in Person :
            LET who == BearerIdentity(p) IN
            Admitted(who) =>
                /\ Admitted(DecodeSession(cookie)) =>
                      (DecodeSession(cookie).name = who.name <=> cookie.claims.sub = p)
                /\ \A q \in Person \ {p} : BearerIdentity(q).name # who.name

(* A session stands for a sign-in of its owner: as to the role and as to the
   name (decode_session_token against identity_from_claims). *)
SessionIsSignIn == PrivilegeCurrent /\ OwnerIsPerson

(* One login signs in once, however often its address is followed or its
   callback is called, unless two callbacks overlap between read and deletion
   (complete_oidc_callback). *)
OneSessionPerLogin == signedIn <= 1 \/ crossed

(* What the documentation says and the code does not keep: "group removal
   cannot leave stale privileges in a cookie" (decode_session_token), "remapped
   from current groups on decode" (ADR-0004).  The groups its owner has lost
   make no difference to the role of an admitted session. *)
NoStalePrivilege ==
    cookie.source \in {"oidc", "ldap"} /\ Admitted(DecodeSession(cookie)) =>
        HumanRole(cookie.claims)
        = HumanRole([cookie.claims EXCEPT !.groups = @ \cap directory[cookie.claims.sub].groups])
=============================================================================
