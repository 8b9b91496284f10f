SPECIFICATION Spec
CONSTANT Run = {a, b, c}
INVARIANT MembersLimited
CHECK_DEADLOCK FALSE
