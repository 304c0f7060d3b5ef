CONSTANTS
    Names = {grape, pear}
    MaxPartitions = 1
    MaxUuids = 3
    StrayOffsets = {0}
SYMMETRY AlikeNames
SPECIFICATION Spec
INVARIANTS
    TypeOK
    MetadataOffsetsFollow
    HandlersAgree
    TopicIdsStayTrue
PROPERTIES
    AppendOnlyAdds
