SPECIFICATION Spec
CONSTANTS
  Nums = {n1}
  Serial = serial
  Nobody = nobody
  Fields = {"name", "token", "wifi", "status_led", "log_level", "syslog_server",
            "ntp_servers", "ntp_enabled", "learn_prio"}
INVARIANTS AcceptedMeansStored RejectedStoresNothing SavedIsLive ConfigComesBack
PROPERTIES ChangesNeedToken
