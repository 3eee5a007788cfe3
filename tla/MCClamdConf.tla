----------------------------- MODULE MCClamdConf -----------------------------
\* ClamdConf for TLC.
EXTENDS ClamdConf
LOCAL INSTANCE SequencesExt

MCWords == STRING
MCLower ==
  [n \in {"OnAccessPrevention", "onaccessprevention", "OnAccessIncludePath", "OnAccessMountPath",
          "onaccessincludepath", "OnAccessExcludeUID", "OnAccessExcludeUname", "OnAccessExcludeRootUID", "User", "user",
          "MaxThreads", "LogFacility"} |->
     CASE n = "onaccessprevention" -> "OnAccessPrevention"
       [] n = "onaccessincludepath" -> "OnAccessIncludePath"
       [] n = "user" -> "User"
       [] OTHER -> n]
MCNumberOf == [w \in {"0", "1", "12"} |-> CASE w = "0" -> 0 [] w = "1" -> 1 [] w = "12" -> 12]

MCHome == <<"/home/u">>
MCRisky == {<<"/">>, <<"/usr">>}

OptionIs(words)  == Written(FALSE, FALSE, words)
ExampleIs(words) == Written(TRUE, FALSE, words)
Sentence(words)  == Written(TRUE, TRUE, words)

MCLines ==
  { OptionIs(<<"OnAccessPrevention", "yes">>), OptionIs(<<"onaccessprevention">>),
    ExampleIs(<<"OnAccessPrevention", "no">>), OptionIs(<<"OnAccessIncludePath", "/">>),
    OptionIs(<<"OnAccessIncludePath", "/home/u">>), OptionIs(<<"OnAccessMountPath", "/mnt">>),
    OptionIs(<<"OnAccessExcludeUname", "clamav">>), ExampleIs(<<"user", "clamav">>),
    Sentence(<<"User", "of", "clamd">>), EmptyLine }
MCFiles ==
  BoundedSeq(MCLines, 3) \cup
  { << OptionIs(<<"LogTime:", "yes">>), OptionIs(<<"user", "scanner">>), Sentence(<<"Default:", "10">>),
       ExampleIs(<<"MaxThreads", "20">>), EmptyLine >>,
    << OptionIs(<<"OnAccessExcludeRootUID", "no">>), OptionIs(<<"OnAccessExcludeRootUID", "yes">>),
       OptionIs(<<"OnAccessMountPath", "/">>), HeaderLine, OptionIs(<<"MaxThreads", "12">>), EmptyLine >>,
    << Sentence(<<"Watched">>), ExampleIs(<<"onaccessincludepath", "/">>), OptionIs(<<"User">>) >>,
    << OptionIs(<<"OnAccessExcludeUID", "0">>), OptionIs(<<"OnAccessIncludePath", "/usr">>),
       OptionIs(<<"OnAccessIncludePath", "/home/u">>), OptionIs(<<"OnAccessPrevention", "on">>), EmptyLine >> }

Editor(key, kind, default, choices, minimum, maximum) ==
  [key |-> key, kind |-> kind, default |-> default, choices |-> choices, minimum |-> minimum, maximum |-> maximum]
MCEditors ==
  { Editor("OnAccessPrevention", "bool", FALSE, {}, 0, 0),
    Editor("OnAccessIncludePath", "multi", FALSE, {}, 0, 0),
    Editor("User", "text", FALSE, {}, 0, 0),
    Editor("MaxThreads", "int", FALSE, {}, 1, 10),
    Editor("LogFacility", "enum", FALSE, {"LOG_LOCAL6"}, 0, 0) }
MCValues == {<<"1">>, <<"12">>, <<"/home/u">>, <<"LOG_LOCAL6">>}

MCShown == [load : {"loaded", "masked", "not-found"}, active : {"active", "inactive", "failed", "activating"},
            file : {"enabled", "masked"}, result : {"success", "exit-code"}]
MCMachines ==
  [scanner : {NoUnit, Status("loaded", "failed", "enabled", "exit-code")},
   daemon : {NoUnit, Status("loaded", "active", "enabled", "success")}, lowLimit : BOOLEAN]
=============================================================================
