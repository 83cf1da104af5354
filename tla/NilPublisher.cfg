\* A replica that started without RabbitMQ; nothing else fails.
CONSTANTS
  MaxUploads = 2
  Users = {u1}
  Kinds = {"picture"}
  Sizes = {"100x100", "300x300"}
  Mishaps = {}
  MaxMishaps = 0
  Replicas = {r1}
  StartsWith = {"nil"}
  Workers = {}
SPECIFICATION Spec
PROPERTIES UploadAnswered
CHECK_DEADLOCK FALSE
