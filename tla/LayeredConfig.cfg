\* One key in config.yml, three environments; each bound allows a second
\* party to get in between.
SPECIFICATION FairSpec
CONSTANTS
    ConfigYmlKeys = {"max_disk_usage_gb"}
    EnvOnlyKeys = {"nntp_pass"}
    Values = {"", "3", "5", "quoted", "escaped"}
    Numbers = {"3", "5"}
    Plain = {"", "3", "5"}
    Reread <- MCReread
    LocalInputs = {"5", "quoted"}
    OverrideInputs = {"", "3"}
    Hosts = {"host", "host:80"}
    HostReread <- MCHostReread
    Directives = {"write", "secret", "junk"}
    Unreadable = {"junk"}
    Payload <- MCPayload
    Setups <- MCSetups
INVARIANTS
    AckedIsDurable
    FileMatchesTier
PROPERTIES
    SiteAndAgentConverge
    DirectiveSettled
