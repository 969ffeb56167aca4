SPECIFICATION Spec
CONSTANTS
    Endpoints = {e1, e2}
    Threads = {t1, t2}
    Boot = boot
    Subnets <- OneSubnet
INVARIANTS
    TypeOK
    UniqueIps
    IpsAreHosts
    FilesAgree
PROPERTIES
    IpIsFixed
SYMMETRY Symmetry
