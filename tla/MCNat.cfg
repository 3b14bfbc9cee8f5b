SPECIFICATION Spec
CONSTANT Topologies <- MCTopologies
INVARIANTS TranslationFits CombinedKeepsAddress RealIpIsBehind
