SPECIFICATION Spec
CONSTANTS
    koali = koali
    orgo = orgo
    ckoali = ckoali
    corgo = corgo
    koali1 = koali1
    koali2 = koali2
    orgo1 = orgo1
    orgo2 = orgo2
    widgets = widgets
    Capsules = {ckoali, corgo}
    Artifacts = {koali, orgo}
    Builds = {koali1, koali2, orgo1, orgo2}
    Versions = {1, 2}
    Caps = {widgets}
    Instances = {i1}
    None = None
    Descriptor <- MCDescriptor
    Trusted = {koali1, koali2, orgo1}
    Supply <- MCSupply
    MaxGeneration = 3
    MaxFaults = 1
INVARIANTS
    TypeOK
    DependenciesInstalled
    EntriesHaveFiles
    HostCandidatesFresh
    FailedImportKeepsFile
PROPERTIES
    RemovalKeepsDependencies
