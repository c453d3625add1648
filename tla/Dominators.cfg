SPECIFICATION MCSpec
CONSTANT MaxNodes = 5
INVARIANTS IdomsAreExact PhisAreWhereDefinitionsMeet DomSetsAreExact
PROPERTY SweepsEnd
