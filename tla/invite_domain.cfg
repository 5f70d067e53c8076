\* Invitations under users.allowed_invitation_domains = [corp, fqdn].
CONSTANTS
    p1 = p1
    p2 = p2
    n1 = n1
    n2 = n2
    eA = eA
    eOther = eOther
    eBad = eBad
    sm1 = sm1
    sm2 = sm2
    eEvil = eEvil
    Blank = Blank
    NoDomain = NoDomain
    NotConfigured = NotConfigured
    Misconfigured = Misconfigured
    NoUser = NoUser
    None = None
    Names <- MCNames
    ServiceEmail <- MCServiceEmail
    DomainOf <- MCDomainOf
    MailDomain <- MCMailDomain
    ValidEmails <- MCValidEmails
    InvitationDomains = {"corp", "fqdn"}
    Procs = {p1}
    Emails <- AllEmails
    Jobs <- InvitationJobs
SPECIFICATION Spec
INVARIANT InvitesOnlyToAllowedDomains
