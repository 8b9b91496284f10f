SPECIFICATION Spec
CONSTANT Run = {a, b, c}
INVARIANTS TypeOK NothingLeft LimitedUnlessReplaced
CHECK_DEADLOCK FALSE
