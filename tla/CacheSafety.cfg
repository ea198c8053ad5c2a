SPECIFICATION Spec
CONSTANTS
    p1 = p1
    p2 = p2
    s1 = s1
    s2 = s2
    t1 = t1
    t2 = t2
    zh_en = zh_en
    plugin = plugin
    other = other
    become = become
    hold = hold
    m1 = m1
    a1 = a1
    Processes = {p1, p2}
    Sources <- OneSource
    Tokens = {t1, t2}
    Modules = {zh_en, plugin, other}
    Mappings = {become, hold}
    Glossary <- OrderedMappings
    DefaultModule = zh_en
    Models = {m1}
    Kernels <- FewKernels
    Answers = {a1}
    Unknown <- UnknownTokens
    MaxCalls = 2
SYMMETRY Interchangeable
INVARIANTS
    RuleOutputsSound
    UnknownTermsOnTrail
    OneRecordPerResult
