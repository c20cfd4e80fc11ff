CONSTANT Faulty <- MCFaulty
SPECIFICATION Spec
INVARIANTS TypeOK FlagsMatchThreads HooksUndisturbed AnnouncedIsTrue
PROPERTIES ActionsComplete KeepsPromises
