SPECIFICATION Spec
CONSTANTS
  c1 = c1 c2 = c2 k1 = k1 s1 = s1 s2 = s2
  CRC = {c1, c2}
  Sender = {s1, s2}
  Worker = {s1, s2}
  Key = {k1}
  crcsOf <- TwoAndOne
  keysOf <- OneKey
  Inputs <- SomeInputs
  CallsRaise = TRUE
  Nobody = Nobody
  startingHooks <- Starting
  startedHooks <- Started
  endedHooks <- AtEnd
  renderedHooks <- Rendered
  pluginHooks = {"example_threaded_callback"}
  SignalWhenStarted = "signalWhenStarted"
  RenderStatic = "render_static"
  Threaded = {"signalWhenStarted", "set_jenkins_build_info", "shutdownDelay",
              "set_jenkins_build_info_static_webui"}
  Faulty = {"plugin_on_starting", "webUIStartedMsg", "render_static"}
INVARIANTS
  StartedMeansServing EndedMeansAlone ActedOnce SuccessIsReviewed SubmittersAgree
PROPERTIES
  RunEnds
CHECK_DEADLOCK FALSE
