SPECIFICATION Spec
INVARIANT AcceptsOnlyUtf8
PROPERTY RefusesOnlyBad
