SPECIFICATION Spec
CONSTANT Clients = {c1}
INVARIANTS PublishedByScope DoneIsPublished
