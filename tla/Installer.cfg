SPECIFICATION Spec
PROPERTIES
    NeverOverwritten
