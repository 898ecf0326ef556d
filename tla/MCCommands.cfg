\* CHECK_DEADLOCK FALSE: commands end, or block when all workers have left.
SPECIFICATION Spec
CONSTANTS
  Workers = 2
  Faults = {"refused", "lost", "request", "open", "copy", "get_codespace", "start",
            "get", "delete", "connect", "refresh", "look", "create", "connect_again",
            "refresh_again", "deadline", "create_again", "permissions", "provision",
            "invoker", "ssh_server", "poll", "tunnel", "list", "file", "killed",
            "fork", "remote", "push", "submit", "metadata", "forbidden", "rename",
            "keygen", "config", "update"}
  Labels = {"bug", "docs", "help"}
  MaxNotes = 4
  MaxPages = 3
  Answers = {"mention", "other", "forbidden", "not_found", "failed"}
  Assets = {"a.tgz", "b.tgz", "c.tgz"}
  Runs = 2
  MaxReviews = 3
  PageSize = 1
  MaxRetries = 2
  MaxStops = 2
  Ports = {80, 443}
  MaxUpdates = 2
  MaxOthers = 1
  MaxSteps = 2
  Codespaces = {"api", "web"}
  Owners = {"alice", "bob"}
  Usable = {"alice"}
  MaxVersion = 2
  MaxCommands = 2
  MaxCommits = 2
  MaxJobs = 2
  MaxReleases = 3
  Values = {"a", "b"}
  MaxChanges = 2
INVARIANTS TypeOK SuccessMeansDone RepliesAccountedFor AutoSubmitTold SubmittedBeforeReply
INVARIANTS StartedOncePerStop PortsKept UpdateStateIsOwn NotFoundIsTrue
PROPERTIES ExistingKept InputKept EndsUnlessBlocked
CHECK_DEADLOCK FALSE
