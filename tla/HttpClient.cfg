SPECIFICATION Spec
CONSTANTS
  Requests = {get, post}
  Posts = {post}
  Statuses = {200, 302, 404}
  Segments = 4
  MaxSegments = 3
INVARIANTS AnswerHasNoHole NothingLeft
PROPERTIES RefinesRequests
CHECK_DEADLOCK FALSE
