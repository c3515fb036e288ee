\* Two policies over two fragments, two readers, and room in Sentinel for a
\* request whose client has given up.
SPECIFICATION Spec
CONSTANTS
    Policy = {p1, p2, q}
    Lapsed = {q}
    File = {blocklist, upstreams}
    Handler = {h1, h2}
    EnvLicensed = FALSE
    Password = {pw1, pw2}
    Reader = {r1, r2}
INVARIANTS
    EnforcedUntilReplaced
    LicensedPoliciesOnly
PROPERTIES
    ChosenUpstreamsKept
SYMMETRY
    Symmetry
