----------------------------- MODULE UserAccounts -----------------------------
(***************************************************************************)
(* The writers of the accounts User table and how they interleave:        *)
(*   - the create_zentral_user management command (Command.handle),       *)
(*   - InviteUserForm (clean_email, the ModelForm validation, save),      *)
(*   - ServiceAccountForm (clean, then the ModelForm save).               *)
(* Each ORM query runs in autocommit and is one step; a command or a form *)
(* request is a job of one of the processes Procs.                         *)
(*                                                                         *)
(* A user row is keyed by its username (unique in AbstractUser) and keeps *)
(* its email, which accounts.models (not in this tree) declares unique,   *)
(* and its superuser and service-account flags.  An INSERT or UPDATE that *)
(* would break a unique column raises IntegrityError, which nothing in    *)
(* this code catches: the job ends with a traceback ("crash").            *)
(* Printing is left out; a job's end is recorded in `done`.               *)
(***************************************************************************)
EXTENDS Naturals, FiniteSets

CONSTANTS
    Procs,              \* concurrent command runs and form requests
    Names,              \* usernames (and service account names)
    Blank,              \* a username that .strip() makes empty
    Emails,             \* e-mail addresses
    ValidEmails,        \* those EmailValidator accepts
    ServiceEmail,       \* ServiceEmail[n]: f'{n}@{fqdn}'
    DomainOf,           \* DomainOf[e]: email.split("@")[1], or NoDomain
    MailDomain,         \* MailDomain[e]: the domain the mail is delivered to
    NoDomain,
    InvitationDomains,  \* users.allowed_invitation_domains: a set of domains,
    NotConfigured,      \*   absent (KeyError),
    Misconfigured,      \*   or not a list of strings
    Jobs,               \* the jobs processes run
    NoUser, None

ASSUME ServiceEmail \in [Names -> Emails]

Row  == [email : Emails, superuser : BOOLEAN, service : BOOLEAN]
Outcomes == {"ok", "skipped", "error", "invalid", "crash"}

VARIABLES
    users,     \* users[n]: the committed row of username n, or NoUser
    tokens,    \* usernames holding an API token
    pc,        \* pc[p]: the step process p is at, "idle" between jobs
    job,       \* job[p]: the command arguments or form data of p's job
    found,     \* found[p]: the command's `user` (a username), or None
    loaded,    \* loaded[p]: that user row as the command fetched it
    done,      \* done[p]: the outcome of p's last finished job (job[p]), or None
    invited    \* usernames created through InviteUserForm (ghost)

vars == <<users, tokens, pc, job, found, loaded, done, invited>>

TypeOK ==
    /\ users \in [Names -> Row \cup {NoUser}]
    /\ tokens \subseteq {n \in Names : users[n] # NoUser}
    /\ pc \in [Procs -> {"idle", "byname", "byemail", "write", "token", "mail",
                         "validate", "isave", "clean", "ssave"}]
    /\ job \in [Procs -> Jobs]
    /\ found \in [Procs -> Names \cup {None}]
    /\ done \in [Procs -> Outcomes \cup {None}]
    /\ invited \subseteq Names

\* The usernames whose row holds email e.
OwnersOf(e) == {n \in Names : users[n] # NoUser /\ users[n].email = e}

\* An INSERT of username n with email e passes the unique indexes.
CanInsert(n, e) == users[n] = NoUser /\ OwnersOf(e) = {}

Goto(p, l) == pc' = [pc EXCEPT ![p] = l]

\* The job ends with outcome o; the command's locals go out of scope.
End(p, o) ==
    /\ pc' = [pc EXCEPT ![p] = "idle"]
    /\ done' = [done EXCEPT ![p] = o]
    /\ found' = [found EXCEPT ![p] = None]
    /\ loaded' = [loaded EXCEPT ![p] = NoUser]

-----------------------------------------------------------------------------
Init ==
    /\ users = [n \in Names |-> NoUser]
    /\ tokens = {}
    /\ pc = [p \in Procs |-> "idle"]
    /\ job = [p \in Procs |-> CHOOSE j \in Jobs : TRUE]
    /\ found = [p \in Procs |-> None]
    /\ loaded = [p \in Procs |-> NoUser]
    /\ done = [p \in Procs |-> None]
    /\ invited = {}

\* A command run or a form request starts.  Command.handle lines 41-51:
\* a blank username or an invalid email ends it with exit_with_error.
Begin(p, j) ==
    /\ pc[p] = "idle"
    /\ job' = [job EXCEPT ![p] = j]
    /\ CASE j.kind = "cmd" ->
              IF j.name = Blank \/ j.email \notin ValidEmails
              THEN done' = [done EXCEPT ![p] = "error"] /\ UNCHANGED pc
              ELSE Goto(p, "byname") /\ done' = [done EXCEPT ![p] = None]
         [] j.kind = "invite"  -> Goto(p, "validate") /\ done' = [done EXCEPT ![p] = None]
         [] j.kind = "service" -> Goto(p, "clean") /\ done' = [done EXCEPT ![p] = None]
    /\ UNCHANGED <<users, tokens, found, loaded, invited>>

\* User.objects.get(username=username), lines 52-61.
ByName(p) ==
    LET j == job[p]  r == users[j.name] IN
    /\ pc[p] = "byname"
    /\ IF r # NoUser /\ r.email # j.email
       THEN End(p, "error")
       ELSE /\ Goto(p, "byemail") /\ UNCHANGED done
            /\ found' = [found EXCEPT ![p] = IF r # NoUser THEN j.name ELSE None]
            /\ loaded' = [loaded EXCEPT ![p] = r]
    /\ UNCHANGED <<users, tokens, job, invited>>

\* User.objects.get(email=email), lines 63-71; found by email, `user` is
\* that row, else it keeps what the username lookup found.
ByEmail(p) ==
    LET j == job[p]  O == OwnersOf(j.email) IN
    /\ pc[p] = "byemail"
    /\ IF O # {} /\ O # {j.name}
       THEN End(p, "error")
       ELSE /\ Goto(p, "write") /\ UNCHANGED done
            /\ IF O = {} THEN UNCHANGED <<found, loaded>>
               ELSE /\ found' = [found EXCEPT ![p] = j.name]
                    /\ loaded' = [loaded EXCEPT ![p] = users[j.name]]
    /\ UNCHANGED <<users, tokens, job, invited>>

\* Mutant: the superuser flag is set on the object but never saved.
PromoteNoSave(p) == UNCHANGED users

\* user.is_superuser = superuser; user.save() (lines 87-90): the UPDATE
\* writes back every field of the row as the command fetched it.
Promote(p) ==
    users' = [users EXCEPT ![found[p]] = [loaded[p] EXCEPT !.superuser = job[p].su]]

\* Lines 73-96: create the user when none was found, else stop for
\* --skip-if-existing, else change the superuser flag if it differs.
Write(p) ==
    LET j == job[p] IN
    /\ pc[p] = "write"
    /\ IF found[p] = None
       THEN IF CanInsert(j.name, j.email)
            THEN /\ users' = [users EXCEPT ![j.name] =
                                [email |-> j.email, superuser |-> j.su, service |-> FALSE]]
                 /\ Goto(p, "token") /\ UNCHANGED <<done, found, loaded>>
            ELSE End(p, "crash") /\ UNCHANGED users
       ELSE IF j.skip
            THEN End(p, "skipped") /\ UNCHANGED users
            ELSE /\ IF loaded[p].superuser # j.su THEN Promote(p) ELSE UNCHANGED users
                 /\ Goto(p, "token") /\ UNCHANGED <<done, found, loaded>>
    /\ UNCHANGED <<tokens, job, invited>>

\* Token.objects.get_or_create(user=user), lines 98-105 (get_or_create
\* falls back to a get when a concurrent insert wins).
Token(p) ==
    /\ pc[p] = "token"
    /\ tokens' = IF job[p].token THEN tokens \cup {job[p].name} ELSE tokens
    /\ Goto(p, "mail")
    /\ UNCHANGED <<users, job, found, loaded, done, invited>>

\* Lines 107-147: the reset link, the optional invitation mail (send_mail
\* may fail: exit_with_error after the user was written) and the output.
Mail(p) ==
    /\ pc[p] = "mail"
    /\ \E sent \in BOOLEAN :
          End(p, IF job[p].mail /\ ~sent THEN "error" ELSE "ok")
    /\ UNCHANGED <<users, tokens, job, invited>>

\* InviteUserForm.clean_email (lines 70-89).
InviteDomainOK(e) ==
    CASE InvitationDomains = NotConfigured -> TRUE
      [] InvitationDomains = Misconfigured -> FALSE
      [] OTHER -> DomainOf[e] # NoDomain /\ DomainOf[e] \in InvitationDomains

\* is_valid(): the required username, the EmailField, clean_email and the
\* unique checks of username and email, all read before the save.
Validate(p) ==
    LET j == job[p] IN
    /\ pc[p] = "validate"
    /\ IF j.name # Blank /\ j.email \in ValidEmails /\ InviteDomainOK(j.email)
          /\ CanInsert(j.name, j.email)
       THEN Goto(p, "isave") /\ UNCHANGED <<done, found, loaded>>
       ELSE End(p, "invalid")
    /\ UNCHANGED <<users, tokens, job, invited>>

\* InviteUserForm.save (lines 91-100): INSERT, then the reset mail.
InviteSave(p) ==
    LET j == job[p] IN
    /\ pc[p] = "isave"
    /\ IF CanInsert(j.name, j.email)
       THEN /\ users' = [users EXCEPT ![j.name] =
                           [email |-> j.email, superuser |-> FALSE, service |-> FALSE]]
            /\ invited' = invited \cup {j.name}
            /\ End(p, "ok")
       ELSE End(p, "crash") /\ UNCHANGED <<users, invited>>
    /\ UNCHANGED <<tokens, job>>

\* The users ServiceAccountForm.clean finds (lines 128-133): same username
\* or the account's email f'{username}@{fqdn}'.
ServiceClashes(n) ==
    {m \in Names : users[m] # NoUser /\ (m = n \/ users[m].email = ServiceEmail[n])}

\* ServiceAccountForm.clean: add_error on a clash (lines 133-137).
Clean(p) ==
    LET n == job[p].name IN
    /\ pc[p] = "clean"
    /\ IF n # Blank /\ ServiceClashes(n) = {}
       THEN Goto(p, "ssave") /\ UNCHANGED <<done, found, loaded>>
       ELSE End(p, "invalid")
    /\ UNCHANGED <<users, tokens, job, invited>>

\* Mutant: the instance's email is left unset.
ServiceRowNoEmail(n) == [email |-> "", superuser |-> FALSE, service |-> TRUE]

\* The instance clean prepares (lines 138-139).
ServiceRow(n) == [email |-> ServiceEmail[n], superuser |-> FALSE, service |-> TRUE]

\* The ModelForm save of the cleaned instance: INSERT.
ServiceSave(p) ==
    LET n == job[p].name IN
    /\ pc[p] = "ssave"
    /\ IF CanInsert(n, ServiceEmail[n])
       THEN users' = [users EXCEPT ![n] = ServiceRow(n)] /\ End(p, "ok")
       ELSE End(p, "crash") /\ UNCHANGED users
    /\ UNCHANGED <<tokens, job, invited>>

Next ==
    \E p \in Procs :
        \/ \E j \in Jobs : Begin(p, j)
        \/ ByName(p) \/ ByEmail(p) \/ Write(p) \/ Token(p) \/ Mail(p)
        \/ Validate(p) \/ InviteSave(p)
        \/ Clean(p) \/ ServiceSave(p)

Spec == Init /\ [][Next]_vars

-----------------------------------------------------------------------------
(***************************************************************************)
(* Properties                                                              *)
(***************************************************************************)

\* No command run or form request ends in an unhandled IntegrityError: the
\* lookups of create_zentral_user, the ModelForm unique checks and
\* ServiceAccountForm.clean find every username and email a later INSERT
\* would collide with.
NoUnhandledError == \A p \in Procs : done[p] # "crash"

\* A create_zentral_user run that ends normally (not skipped) leaves the
\* user with the requested username, email and superuser flag, holding an
\* API token when --with-api-token was given.
CommandLeavesUserAsRequested ==
    \A p \in Procs :
        LET j == job[p]  u == users[j.name] IN
        (pc[p] = "idle" /\ done[p] = "ok" /\ j.kind = "cmd") =>
            /\ u # NoUser /\ u.email = j.email /\ u.superuser = j.su
            /\ j.token => j.name \in tokens

\* An invitation only goes to a mailbox of an allowed domain: every user
\* InviteUserForm created has an email delivered to a domain of
\* users.allowed_invitation_domains, when that setting is a list.
InvitesOnlyToAllowedDomains ==
    InvitationDomains \notin {NotConfigured, Misconfigured} =>
        \A n \in invited : MailDomain[users[n].email] \in InvitationDomains
=============================================================================
