\* Three tags, so that removal can reorder the groups after the hole and a
\* recycled tag can be handed out while a higher one is live
CONSTANTS
    Labels = {l1, l2}
    MaxTag = 2
    None = None
SPECIFICATION Spec
INVARIANTS
    TypeOK
    IterationVisitsEach
