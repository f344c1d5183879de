SPECIFICATION InputsSpec
CONSTANTS
    Limit <- MCLimit
    ProfileInput <- MCProfileInput
    AccountInput <- MCAccountInput
    SettingsInput <- MCSettingsInput
    Rename <- MCRename
    ProbedProxy <- MCProbedProxy
    ProbeAnswers <- MCProbeAnswers
    Uri <- MCUri
    Image <- MCImage
    Instant = {0, 1, 29, 59, 299, 300, 301}
    ApiAnswers <- MCApiAnswers
    Dir = dir
    Layout <- MCLayout
    Unparsable <- MCUnparsable
    Sources <- MCSources
INVARIANTS
    RulesAgree
    FactorsMatchTheirUri
    OptionsMatchTheirAssets
