---------------------------- MODULE MCUserAccounts ----------------------------
(***************************************************************************)
(* Instantiates UserAccounts for TLC.                                      *)
(*   eA     = "a@corp.example"                                             *)
(*   eOther = "x@other.example"                                            *)
(*   eBad   = "not-an-address"                                             *)
(*   sm1, sm2 = "n1@zentral.example", "n2@zentral.example" (fqdn)          *)
(*   eEvil  = '"x@corp.example@y"@evil.example': a quoted local part,      *)
(*            which EmailValidator accepts; split("@")[1] is               *)
(*            "corp.example", the mail goes to evil.example.               *)
(***************************************************************************)
EXTENDS UserAccounts, TLC

CONSTANTS p1, p2, n1, n2, eA, eOther, eBad, sm1, sm2, eEvil

MCNames == {n1, n2}
MCServiceEmail == [n \in MCNames |-> IF n = n1 THEN sm1 ELSE sm2]

MCDomainOf == (eA :> "corp" @@ eOther :> "other" @@ eBad :> NoDomain
               @@ sm1 :> "fqdn" @@ sm2 :> "fqdn" @@ eEvil :> "corp")
MCMailDomain == [MCDomainOf EXCEPT ![eEvil] = "evil"]

OrdinaryEmails == {eA, eOther, eBad, sm1, sm2}
AllEmails == OrdinaryEmails \cup {eEvil}
MCValidEmails == AllEmails \ {eBad}

CmdJobs(names, emails) ==
    [kind : {"cmd"}, name : names, email : emails,
     su : BOOLEAN, skip : BOOLEAN, token : BOOLEAN, mail : BOOLEAN]
InviteJobs(names, emails) ==
    [kind : {"invite"}, name : names, email : emails,
     su : {FALSE}, skip : {FALSE}, token : {FALSE}, mail : {FALSE}]
ServiceJobs(names) ==
    [kind : {"service"}, name : names, email : {sm1},
     su : {FALSE}, skip : {FALSE}, token : {FALSE}, mail : {FALSE}]

\* Every job, one process: any sequence of command runs and form requests.
\* eA is an address of an allowed domain, eOther one of another domain,
\* sm1 the address a service account n1 takes; a blank username and an
\* invalid address reach the early exits.
SequentialJobs ==
    CmdJobs(MCNames, {eA, sm1}) \cup CmdJobs({Blank}, {eBad})
    \cup InviteJobs(MCNames, {eA, eOther, sm1}) \cup InviteJobs({Blank}, {eA})
    \cup ServiceJobs(MCNames \cup {Blank})

\* Creates racing on one table: no option that ends a run early.
RacingJobs ==
    {j \in CmdJobs(MCNames, {eA, sm1}) : ~j.skip /\ ~j.token /\ ~j.mail}
    \cup InviteJobs(MCNames, {eA}) \cup ServiceJobs(MCNames)

\* Invitations, the crafted address among them.
InvitationJobs == InviteJobs(MCNames, AllEmails)
=============================================================================
