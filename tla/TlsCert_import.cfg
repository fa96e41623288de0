SPECIFICATION Spec
CONSTANTS
    d1 = d1
    d2 = d2
    d3 = d3
    NoDir = nodir
    CertDirs <- MCCertDirs
    SearchPaths <- MCSearchPaths
    MaxPair = 2
INVARIANTS ImportedKeyIsNamed
VIEW Relevant
