SPECIFICATION Spec
CONSTANTS
    a = a  b = b  email = email
    Custom = {a, b}
    Builtin = {email}
    Validators = {v1, v2}
    BuiltinCheck = BuiltinCheck
    NoValidator = NoValidator
    Texts <- MCTexts
    Clients = {c1, c2}
    Nobody = Nobody
INVARIANTS TypeOK MapIsGuarded SchemasAgree
PROPERTIES RegisteredForGood ImplementsAtomicRegistry
