\* Two runs of S1 and two sealings; registrations of one id race, and uploads
\* under it may be of the other sealing's shares.  What SQLite does MariaDB may do, too.
SPECIFICATION Spec
CONSTANTS
    MaxSeals = 2
    MaxSplits = 2
    MaxKeys = 2
    Typed = {1}
    mariadb = mariadb
    Databases = {mariadb}
    MariaDB = {mariadb}
    form1 = form1  form2 = form2
    Forms = {form1, form2}
    q1 = q1  q2 = q2
    Slots = {q1, q2}
    None = None
INVARIANTS TypeOK BundleOpens RecoversKey
PROPERTIES LedgersKept
SYMMETRY SlotsAndForms
