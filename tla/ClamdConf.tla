------------------------------ MODULE ClamdConf ------------------------------
\* clamd.conf as its two pages change it: the applies (ConfigApply) beside what
\* one edit and one remedy do to the text (ConfText, OnAccessDiagnosis).
EXTENDS ConfigApply, OnAccessDiagnosis

\* What is said of the files does not depend on the state: it is looked at once,
\* before anything is done.
AtFirst == jobs = 0 /\ disk = {} /\ page = [readable |-> TRUE, base |-> {}, text |-> {}]

\* Every edit of every file changes what it is about and nothing else, and the
\* editors read back what they wrote (conf_file.py, configuration.py).
EditsStayLocal ==
  AtFirst => \A text \in Files, option \in Editors : \A value \in Typeable(option) :
               EditIsLocal(Parse(text), option, value)

\* Every remedy the Protection page offers, for every file, mends what it is
\* offered for; and the badge of a service is red just when its diagnosis is
\* (diagnostics.py, services.py).
RemediesHeal ==
  AtFirst =>
    /\ \A text \in Files, machine \in Machines : RemediesHealIn(Parse(text).lines, machine)
    /\ \A hasUnit, asked \in BOOLEAN, shown \in Shown : ToneIsDiagnosis(ReadStatus(hasUnit, asked, shown))
=============================================================================
