SPECIFICATION StoresSpec
CONSTANTS
    p1 = p1
    p2 = p2
    h1 = h1
    h2 = h2
    wav = wav
    flac = flac
    NoLink = NoLink
    NoEntry = NoEntry
    NoCopy = NoCopy
    NoJob = NoJob
    Nodes = {"mix", "stem", "take"}
    Linkers <- TwoProcesses
    Curators <- TwoProcesses
    Hashes <- TwoHashes
    Extensions <- TwoExtensions
SYMMETRY StoresSymmetry
INVARIANTS
    LineageIsAcyclic
    LinksAreKept
    CanonIsWhole
