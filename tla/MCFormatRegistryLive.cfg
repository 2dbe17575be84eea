SPECIFICATION FairSpec
CONSTANTS
    a = a  b = b  email = email
    Custom = {a}
    Builtin = {}
    Validators = {v1}
    BuiltinCheck = BuiltinCheck
    NoValidator = NoValidator
    Texts <- MCOneText
    Clients = {c1, c2, c3}
    Nobody = Nobody
PROPERTIES CallsReturn
